---- MODULE Spec2Model ----
(***************************************************************************)
(* Model of questioner-maker: the request queue of App.tsx (processQueue), *)
(* the correction loop of services/geminiService.ts                        *)
(* (generateQuestionsFromGemini), the question classifier, the save guard  *)
(* and the CSV helpers of utils/csvHelper.ts.                              *)
(*                                                                         *)
(* Text is modelled as a sequence of one-character strings, so that        *)
(* trimming, quoting, splitting and concatenation are computed as the code *)
(* computes them.  The JavaScript values undefined and null are the two    *)
(* one-element sequences Undefined and Null, which are no text.            *)
(***************************************************************************)
EXTENDS Integers, Sequences, FiniteSets, TLC

\* ------------------------------------------------------------------------
\* Bounds of the model (not program constants)
\* ------------------------------------------------------------------------
MaxCsvLen == 2
MaxSaveTable == 2
MaxRequests == 2
MaxChunks == 2
MaxQueue == 3
MaxInitTable == 2

\* ------------------------------------------------------------------------
\* Program constants
\* ------------------------------------------------------------------------
MAX_OVERALL_REQUEST_ATTEMPTS == 2
MAX_JSON_CORRECTION_ATTEMPTS == 5

\* ------------------------------------------------------------------------
\* JavaScript values and string primitives
\* ------------------------------------------------------------------------
Undefined == <<"<undefined>">>
Null == <<"<null>">>

Whitespace == {" ", "\n", "\t", "\r"}

Min(a, b) == IF a < b THEN a ELSE b
Max(a, b) == IF a > b THEN a ELSE b

\* String.prototype.trimStart / trimEnd / trim
RECURSIVE TrimStart(_)
TrimStart(s) ==
  IF s # <<>> /\ Head(s) \in Whitespace THEN TrimStart(Tail(s)) ELSE s

RECURSIVE TrimEnd(_)
TrimEnd(s) ==
  IF s # <<>> /\ s[Len(s)] \in Whitespace
    THEN TrimEnd(SubSeq(s, 1, Len(s) - 1))
    ELSE s

Trim(s) == TrimEnd(TrimStart(s))

\* String.prototype.substring(start, end): indices are clamped to
\* [0, length] and swapped when start > end (0-based, end exclusive).
Substring(s, start, end) ==
  LET a == Max(0, Min(start, Len(s)))
      b == Max(0, Min(end, Len(s)))
  IN SubSeq(s, Min(a, b) + 1, Max(a, b))

\* String.prototype.includes for a single character
Includes(s, ch) == \E k \in 1..Len(s) : s[k] = ch

\* s.replace(/"/g, '""')
RECURSIVE DoubleQuotes(_)
DoubleQuotes(s) ==
  IF s = <<>> THEN <<>>
  ELSE (IF Head(s) = "\"" THEN <<"\"", "\"">> ELSE <<Head(s)>>)
       \o DoubleQuotes(Tail(s))

\* s.replace(/""/g, '"'): leftmost non-overlapping matches
RECURSIVE UndoubleQuotes(_)
UndoubleQuotes(s) ==
  IF Len(s) >= 2 /\ s[1] = "\"" /\ s[2] = "\""
    THEN <<"\"">> \o UndoubleQuotes(SubSeq(s, 3, Len(s)))
  ELSE IF s = <<>> THEN <<>>
  ELSE <<Head(s)>> \o UndoubleQuotes(Tail(s))

\* Array.prototype.join(sep) on an array of strings
RECURSIVE Join(_, _)
Join(parts, sep) ==
  IF parts = <<>> THEN <<>>
  ELSE IF Len(parts) = 1 THEN parts[1]
  ELSE parts[1] \o sep \o Join(Tail(parts), sep)

\* text.split(/\r\n|\n/): the text between the line feeds, a carriage
\* return right before a line feed being part of the separator
SplitLines(text) ==
  LET feeds == {k \in 1..Len(text) : text[k] = "\n"}
      feed(n) == CHOOSE k \in feeds : Cardinality({j \in feeds : j < k}) = n - 1
      first(n) == IF n = 1 THEN 1 ELSE feed(n - 1) + 1
      last(n) ==
        IF n = Cardinality(feeds) + 1 THEN Len(text)
        ELSE IF feed(n) - 1 >= first(n) /\ text[feed(n) - 1] = "\r"
          THEN feed(n) - 2
        ELSE feed(n) - 1
  IN [n \in 1..(Cardinality(feeds) + 1) |-> SubSeq(text, first(n), last(n))]

\* all sequences over S of length at most n
SeqsUpTo(S, n) == UNION {[1..k -> S] : k \in 0..n}

\* ------------------------------------------------------------------------
\* types.ts
\* ------------------------------------------------------------------------
CSV_HEADERS == <<
  <<"P", "r", "e", "g", "u", "n", "t", "a">>,
  <<"O", "p", "c", "i", "ó", "n", " ", "c", "o", "r", "r", "e", "c", "t", "a", " ", "1">>,
  <<"O", "p", "c", "i", "ó", "n", " ", "C", "o", "r", "r", "e", "c", "t", "a", " ", "2">>,
  <<"O", "p", "c", "i", "ó", "n", " ", "C", "o", "r", "r", "e", "c", "t", "a", " ", "3">>,
  <<"O", "p", "c", "i", "ó", "n", " ", "I", "n", "c", "o", "r", "r", "e", "c", "t", "a", " ", "1">>,
  <<"O", "p", "c", "i", "ó", "n", " ", "I", "n", "c", "o", "r", "r", "e", "c", "t", "a", " ", "2">>,
  <<"O", "p", "c", "i", "ó", "n", " ", "I", "n", "c", "o", "r", "r", "e", "c", "t", "a", " ", "3">>,
  <<"E", "x", "p", "l", "i", "c", "a", "c", "i", "ó", "n">> >>

\* interface QuestionData; the record fields stand for the keys
\* 'Pregunta', 'Opción correcta 1', 'Opción Correcta 2', ... , 'Explicación'
QuestionData(id, p, c1, c2, c3, i1, i2, i3, e) ==
  [id |-> id, Pregunta |-> p, OpcionCorrecta1 |-> c1, OpcionCorrecta2 |-> c2,
   OpcionCorrecta3 |-> c3, OpcionIncorrecta1 |-> i1, OpcionIncorrecta2 |-> i2,
   OpcionIncorrecta3 |-> i3, Explicacion |-> e]

\* the eight exported fields of a question, in CSV_HEADERS order
QuestionFields(q) ==
  <<q.Pregunta, q.OpcionCorrecta1, q.OpcionCorrecta2, q.OpcionCorrecta3,
    q.OpcionIncorrecta1, q.OpcionIncorrecta2, q.OpcionIncorrecta3,
    q.Explicacion>>

\* ------------------------------------------------------------------------
\* App.tsx: question classification
\* ------------------------------------------------------------------------
\* a check that takes a blank string for a value
isFieldEmptyNoTrim(value) ==
  value = Undefined \/ value = Null \/ value = <<>>

isFieldEmpty(value) ==
  value = Undefined \/ value = Null \/ Trim(value) = <<>>

BoolCount(b) == IF b THEN 1 ELSE 0

getQuestionTypeInfo(question) ==
  LET hasC1 == ~isFieldEmpty(question.OpcionCorrecta1)
      hasC2 == ~isFieldEmpty(question.OpcionCorrecta2)
      hasC3 == ~isFieldEmpty(question.OpcionCorrecta3)
      hasI1 == ~isFieldEmpty(question.OpcionIncorrecta1)
      hasI2 == ~isFieldEmpty(question.OpcionIncorrecta2)
      hasI3 == ~isFieldEmpty(question.OpcionIncorrecta3)
      incorrectOptionsFilled ==
        BoolCount(hasI1) + BoolCount(hasI2) + BoolCount(hasI3)
  IN IF isFieldEmpty(question.Pregunta) THEN "Empty"
     ELSE IF hasC1 /\ ~hasC2 /\ ~hasC3 /\ ~hasI1 /\ ~hasI2 /\ ~hasI3
       THEN "OpenAnswer"
     ELSE IF hasC2 /\ ~hasC1 /\ ~hasC3 /\ ~hasI1 /\ ~hasI2 /\ ~hasI3
       THEN "Flashcard"
     ELSE IF hasC1 /\ hasI1 /\ ~hasC2 /\ ~hasC3 /\ ~hasI2 /\ ~hasI3
       THEN "TrueFalse"
     ELSE IF hasC1 /\ (hasC2 \/ hasC3) /\ incorrectOptionsFilled >= 1
       THEN "MultipleCorrect"
     ELSE IF hasC1 /\ ~hasC2 /\ ~hasC3 /\ incorrectOptionsFilled >= 2
       THEN "SingleCorrect"
     ELSE "Unknown"

\* ------------------------------------------------------------------------
\* utils/csvHelper.ts
\* ------------------------------------------------------------------------
\* the for loop of parseCsvLineRobust, from 1-based position i
RECURSIVE ParseCsvLoop(_, _, _, _, _)
ParseCsvLoop(line, i, fields, currentField, inQuotes) ==
  IF i > Len(line) THEN Append(fields, currentField)
  ELSE IF line[i] = "\"" THEN
    IF inQuotes /\ i + 1 <= Len(line) /\ line[i + 1] = "\""
      THEN ParseCsvLoop(line, i + 2, fields,
                        Append(currentField, "\""), inQuotes)
      ELSE ParseCsvLoop(line, i + 1, fields, currentField, ~inQuotes)
  ELSE IF line[i] = "," /\ ~inQuotes
    THEN ParseCsvLoop(line, i + 1, Append(fields, currentField),
                      <<>>, inQuotes)
  ELSE ParseCsvLoop(line, i + 1, fields,
                    Append(currentField, line[i]), inQuotes)

\* the fields.map callback of parseCsvLineRobust
CsvFieldCleanup(field) ==
  IF field # <<>> /\ field[1] = "\"" /\ field[Len(field)] = "\""
    THEN UndoubleQuotes(Substring(field, 1, Len(field) - 1))
    ELSE Trim(field)

\* parseCsvLineRobust. The loop is run on one stretch of the line at a time,
\* the stretches being cut at the commas that the loop meets outside quotes:
\* those with an even number of quote characters before them, since a quote
\* outside an escaped pair flips inQuotes and an escaped pair, two quotes,
\* leaves it as it was. Each stretch starts outside quotes and yields one
\* field.
parseCsvLineRobust(line) ==
  LET cuts == {k \in 1..Len(line) :
                 /\ line[k] = ","
                 /\ Cardinality({j \in 1..(k - 1) : line[j] = "\""}) % 2 = 0}
      cut(n) == CHOOSE k \in cuts : Cardinality({j \in cuts : j < k}) = n - 1
      first(n) == IF n = 1 THEN 1 ELSE cut(n - 1) + 1
      last(n) == IF n = Cardinality(cuts) + 1 THEN Len(line) ELSE cut(n) - 1
      fields == [n \in 1..(Cardinality(cuts) + 1) |->
                   ParseCsvLoop(SubSeq(line, first(n), last(n)), 1, <<>>, <<>>,
                                FALSE)[1]]
  IN [k \in 1..Len(fields) |-> CsvFieldCleanup(fields[k])]

escapeCsvField(fieldValue) ==
  IF fieldValue = Null \/ fieldValue = Undefined \/ fieldValue = <<>>
    THEN <<>>
  ELSE IF Includes(fieldValue, ",") \/ Includes(fieldValue, "\"")
          \/ Includes(fieldValue, "\n")
    THEN <<"\"">> \o DoubleQuotes(fieldValue) \o <<"\"">>
  ELSE fieldValue

CsvDataRow(q) ==
  Join([k \in 1..8 |-> escapeCsvField(QuestionFields(q)[k])], <<",">>)

generateCsvString(questions) ==
  LET headerRow == Join(CSV_HEADERS, <<",">>)
      dataRows == [k \in 1..Len(questions) |-> CsvDataRow(questions[k])]
  IN Join(<<headerRow>> \o dataRows, <<"\n">>)

\* ------------------------------------------------------------------------
\* The model's answers: JSON texts and what JSON.parse makes of them
\* ------------------------------------------------------------------------
\* A JSON object of the answer: a key that is absent is Undefined, a key
\* whose value is null is Null, any other value is the text of a string.
JsonObject(id, p, c1, c2, i1, e) ==
  [type |-> "object", id |-> id, Pregunta |-> p, OpcionCorrecta1 |-> c1,
   OpcionCorrecta2 |-> c2, OpcionIncorrecta1 |-> i1, Explicacion |-> e]

JsonNumber == [type |-> "number"]
JsonArray(items) == [type |-> "array", items |-> items]

KeyId == <<"i", "d">>
KeyPregunta == CSV_HEADERS[1]
KeyOpcionCorrecta1 == CSV_HEADERS[2]
KeyOpcionCorrecta2 == CSV_HEADERS[3]
KeyOpcionIncorrecta1 == CSV_HEADERS[5]
KeyExplicacion == CSV_HEADERS[8]

Quoted(s) == <<"\"">> \o s \o <<"\"">>

\* JSON.stringify of one key of an object (nothing for an absent key)
JsonMember(key, value) ==
  IF value = Undefined THEN <<>>
  ELSE <<Quoted(key) \o <<":">>
         \o (IF value = Null THEN <<"n", "u", "l", "l">> ELSE Quoted(value))>>

RECURSIVE JsonStringify(_)
JsonStringify(v) ==
  IF v.type = "number" THEN <<"1">>
  ELSE IF v.type = "object" THEN
    <<"{">> \o Join(JsonMember(KeyId, v.id)
                    \o JsonMember(KeyPregunta, v.Pregunta)
                    \o JsonMember(KeyOpcionCorrecta1, v.OpcionCorrecta1)
                    \o JsonMember(KeyOpcionCorrecta2, v.OpcionCorrecta2)
                    \o JsonMember(KeyOpcionIncorrecta1, v.OpcionIncorrecta1)
                    \o JsonMember(KeyExplicacion, v.Explicacion),
                    <<",">>) \o <<"}">>
  ELSE <<"[">> \o Join([k \in 1..Len(v.items) |-> JsonStringify(v.items[k])],
                       <<",">>) \o <<"]">>

\* ids: the ids the application generates (gen-...) and one id the
\* application never generated
MaxGenIds == 4
GenId(n) == <<"g", "e", "n", "-">> \o <<<<"0", "1", "2", "3", "4", "5", "6", "7", "8", "9">>[n + 1]>>
ForeignId == <<"z", "z">>
ReturnedIds == {GenId(n) : n \in 1..MaxGenIds} \cup {ForeignId}

TextP == <<"P">>
TextR == <<"R">>
TextA == <<"A">>
TextB == <<"B">>
TextE == <<"E">>

\* the objects the model may answer with
NewItem == JsonObject(Undefined, TextP, TextA, Undefined, Undefined, TextE)
NewItems ==
  {JsonObject(id, TextP, TextA, Undefined, Undefined, TextE) :
     id \in {Undefined, Null, <<" ">>}}
  \cup {JsonObject(Undefined, TextP, TextA, TextB, Null, Null)}
RewrittenItem(id) == JsonObject(id, TextR, TextA, <<>>, <<>>, TextE)
RewrittenItems ==
  {RewrittenItem(id) : id \in {GenId(n) : n \in 1..MaxInitTable} \cup {ForeignId}}
BlankPreguntaItem ==
  JsonObject(Undefined, <<" ">>, TextA, Undefined, Undefined, TextE)
InvalidItems ==
  {BlankPreguntaItem,
   JsonObject(ForeignId, TextP, Null, Undefined, Undefined, TextE),
   JsonNumber}
ModelItems == NewItems \cup RewrittenItems \cup InvalidItems

MaxItems == 2

\* every JSON value the model may answer with
ModelJsonValues ==
  {JsonArray(items) : items \in SeqsUpTo(ModelItems, MaxItems)}
  \cup {JsonObject(Undefined, TextP, TextA, Undefined, Undefined, TextE)}

JsonTexts == [v \in ModelJsonValues |-> JsonStringify(v)]
JsonTextSet == {JsonTexts[v] : v \in ModelJsonValues}

\* the character U+0060 of a Markdown code fence (written "'" here: the
\* TLA+ lexer accepts no U+0060 inside a string)
FenceChar == "'"
Fence == <<FenceChar, FenceChar, FenceChar>>

FencedText(t) == Fence \o <<"j", "s", "o", "n", "\n">> \o t \o <<"\n">> \o Fence

\* another spelling of the empty array
EmptyArraySpaced == <<"[", " ", "]">>

\* texts that are no JSON
GarbageTexts == {<<"x">>, <<"[", "{">>}
BlankTexts == {<<>>, <<" ">>, <<"\n", " ">>}


\* The answers the model can give when nextId is the number of the next
\* generated id: it returns only ids it was shown (generated ones) or one of
\* its own making, and the table holds at most MaxGenIds generated ids.
ItemAllowed(item, nextId) ==
  item.type = "object" /\ item.id \in ReturnedIds \ {ForeignId}
    => \E n \in 1..(nextId - 1) : item.id = GenId(n)

ValueAllowed(v, nextId) ==
  v.type = "array" =>
    /\ \A k \in 1..Len(v.items) : ItemAllowed(v.items[k], nextId)
    /\ nextId - 1 + Cardinality({k \in 1..Len(v.items) :
                                  v.items[k].type = "object"
                                  /\ v.items[k].id \notin ReturnedIds})
         <= MaxGenIds

AnswerTexts(Values, OtherTexts, nextId) ==
  {JsonTexts[v] : v \in {w \in Values : ValueAllowed(w, nextId)}}
  \cup OtherTexts

\* the texts that are not the JSON.stringify of a value
OtherModelTexts ==
  {FencedText(JsonTexts[JsonArray(<<>>)]), EmptyArraySpaced}
  \cup GarbageTexts \cup BlankTexts

\* the answers of the model while the whole queue is followed: a new
\* question, no question, or no JSON at all
QueueJsonValues == {JsonArray(<<>>), JsonArray(<<NewItem>>)}
QueueOtherTexts == {<<"x">>}

\* the ways a text can arrive as a stream of at most n chunks (a chunk may
\* be empty)
CutPoints(text) == {1, Len(text)} \cap 0..Len(text)

RECURSIVE Chunkings(_, _)
Chunkings(text, n) ==
  IF n <= 1 THEN {<<text>>}
  ELSE {<<text>>} \cup
       UNION {{<<SubSeq(text, 1, k)>> \o rest :
                 rest \in Chunkings(SubSeq(text, k + 1, Len(text)), n - 1)} :
              k \in CutPoints(text)}

\* JSON.parse: the value a text denotes, or a SyntaxError
JSONParse(text) ==
  IF text = EmptyArraySpaced THEN [ok |-> TRUE, value |-> JsonArray(<<>>)]
  ELSE IF text \in JsonTextSet
    THEN [ok |-> TRUE,
          value |-> CHOOSE v \in ModelJsonValues : JsonTexts[v] = text]
    ELSE [ok |-> FALSE, value |-> JsonNumber]

\* ------------------------------------------------------------------------
\* services/geminiService.ts: parsing and validating one answer
\* ------------------------------------------------------------------------
StartsWith(s, prefix) ==
  Len(s) >= Len(prefix) /\ SubSeq(s, 1, Len(prefix)) = prefix

\* jsonStrToParse.match(/^```(?:json)?\s*\n?(.*?)\n?\s*```$/s): the text
\* between the fences without the language tag and the surrounding white
\* space; the text itself when there is no fence or nothing between them
StripFence(jsonStrToParse) ==
  IF Len(jsonStrToParse) >= 6 /\ StartsWith(jsonStrToParse, Fence)
     /\ SubSeq(jsonStrToParse, Len(jsonStrToParse) - 2, Len(jsonStrToParse)) = Fence
  THEN LET inner == SubSeq(jsonStrToParse, 4, Len(jsonStrToParse) - 3)
           body == IF StartsWith(inner, <<"j", "s", "o", "n">>)
                     THEN SubSeq(inner, 5, Len(inner)) ELSE inner
       IN IF Trim(body) # <<>> THEN Trim(body) ELSE jsonStrToParse
  ELSE jsonStrToParse

\* typeof value === 'string'
IsString(value) == value # Undefined /\ value # Null

\* (v === null || v === undefined) ? undefined : String(v)
OptionalString(value) == IF IsString(value) THEN value ELSE Undefined

ItemIsObject(item) == item.type = "object"

\* a validation that looks at 'Pregunta' only
ItemHasPreguntaOnly(item) ==
  /\ ItemIsObject(item)
  /\ IsString(item.Pregunta) /\ Trim(item.Pregunta) # <<>>

ItemHasRequiredFields(item) ==
  /\ ItemIsObject(item)
  /\ IsString(item.Pregunta) /\ Trim(item.Pregunta) # <<>>
  /\ IsString(item.OpcionCorrecta1) /\ Trim(item.OpcionCorrecta1) # <<>>

ItemKeepsId(item) == IsString(item.id) /\ Trim(item.id) # <<>>

\* the question built from one valid item; freshId is the id that
\* `gen-${Date.now()}-${Math.random()...}` yields for it
QuestionEntry(item, freshId) ==
  QuestionData(
    IF ItemKeepsId(item) THEN item.id ELSE freshId,
    item.Pregunta,
    item.OpcionCorrecta1,
    OptionalString(item.OpcionCorrecta2),
    Undefined,
    OptionalString(item.OpcionIncorrecta1),
    Undefined,
    Undefined,
    IF IsString(item.Explicacion) THEN item.Explicacion ELSE <<>>)

\* the for loop over parsedData: the questions of the items, the n-th item
\* without an id of its own taking the n-th fresh id after nextId
RECURSIVE ParsedQuestions(_, _)
ParsedQuestions(items, nextId) ==
  IF items = <<>> THEN <<>>
  ELSE <<QuestionEntry(Head(items), GenId(nextId))>>
       \o ParsedQuestions(Tail(items),
                          IF ItemKeepsId(Head(items)) THEN nextId ELSE nextId + 1)

FreshIdsUsed(items) ==
  Cardinality({k \in 1..Len(items) : ~ItemKeepsId(items[k])})

\* the text '[]'
EmptyArrayText == <<"[", "]">>

\* a check that takes no text for the empty array
IsEmptyArrayTextNever(jsonStrToParse) == FALSE

\* lines 441 and 444: jsonStrToParse.trim() === '[]'
IsEmptyArrayText(jsonStrToParse) == Trim(jsonStrToParse) = EmptyArrayText

\* a check that takes only the empty text for blank
IsBlankOutputNoTrim(lastGeminiRawOutput) == lastGeminiRawOutput = <<>>

\* line 365: !lastGeminiRawOutput || lastGeminiRawOutput.trim() === ''
IsBlankOutput(lastGeminiRawOutput) ==
  lastGeminiRawOutput = <<>> \/ Trim(lastGeminiRawOutput) = <<>>

\* One pass of the body of the correction loop after the answer is in
\* lastGeminiRawOutput: the questions it returns, or the error it raises
ValidateOutput(lastGeminiRawOutput, nextId) ==
  LET failure(msg) == [ok |-> FALSE, error |-> msg, parsedQuestions |-> <<>>,
                       parsedData |-> <<>>]
      jsonStrToParse == StripFence(Trim(lastGeminiRawOutput))
      parsed == JSONParse(jsonStrToParse)
      parsedData == parsed.value.items
  IN IF IsBlankOutput(lastGeminiRawOutput) THEN failure("emptyResponse")
     ELSE IF ~parsed.ok THEN failure("syntaxError")
     ELSE IF parsed.value.type # "array" THEN failure("notArray")
     ELSE IF \E k \in 1..Len(parsedData) :
               /\ ~ItemIsObject(parsedData[k])
               /\ \A j \in 1..(k - 1) : ItemIsObject(parsedData[j])
                                        /\ ItemHasRequiredFields(parsedData[j])
       THEN failure("itemNotObject")
     ELSE IF \E k \in 1..Len(parsedData) : ~ItemHasRequiredFields(parsedData[k])
       THEN failure("missingFields")
     ELSE IF parsedData = <<>> /\ ~IsEmptyArrayText(jsonStrToParse)
       THEN failure("noValidQuestions")
     ELSE [ok |-> TRUE, error |-> "none",
           parsedQuestions |-> ParsedQuestions(parsedData, nextId),
           parsedData |-> parsedData]

\* ------------------------------------------------------------------------
\* App.tsx: merging the returned questions into the table
\* ------------------------------------------------------------------------
IndexOfId(list, id) ==
  IF \E k \in 1..Len(list) : list[k].id = id
    THEN CHOOSE k \in 1..Len(list) :
           list[k].id = id /\ \A j \in 1..(k - 1) : list[j].id # id
    ELSE 0

\* questionsFromCurrentGeminiCall.forEach: append what is neither a
\* rewritten version nor already in the list
RECURSIVE AddNewQuestions(_, _, _)
AddNewQuestions(updatedList, newQs, processedIdsFromGemini) ==
  IF newQs = <<>> THEN updatedList
  ELSE LET nq == Head(newQs)
           alreadyExists == IndexOfId(updatedList, nq.id) # 0
       IN AddNewQuestions(
            IF nq.id \notin processedIdsFromGemini /\ ~alreadyExists
              THEN Append(updatedList, nq) ELSE updatedList,
            Tail(newQs), processedIdsFromGemini)

\* a merge that only appends
MergeAppendsAll(prevGeneratedQuestions, newQsFromGemini) ==
  prevGeneratedQuestions \o newQsFromGemini

\* the updater passed to setGeneratedQuestions
MergeQuestions(prevGeneratedQuestions, newQsFromGemini) ==
  LET rewritten == [k \in 1..Len(prevGeneratedQuestions) |->
                      IndexOfId(newQsFromGemini, prevGeneratedQuestions[k].id)]
      updatedList == [k \in 1..Len(prevGeneratedQuestions) |->
                        IF rewritten[k] # 0 THEN newQsFromGemini[rewritten[k]]
                        ELSE prevGeneratedQuestions[k]]
      processedIdsFromGemini ==
        {prevGeneratedQuestions[k].id : k \in {j \in 1..Len(prevGeneratedQuestions) : rewritten[j] # 0}}
  IN AddNewQuestions(updatedList, newQsFromGemini, processedIdsFromGemini)

\* ------------------------------------------------------------------------
\* State
\* ------------------------------------------------------------------------
VARIABLES
  requests,             \* App state: the queue, a sequence of GenerationRequest
  generatedQuestions,   \* App state: the table of questions
  isProcessing,         \* App state
  globalError,          \* App state: the error banner, "null" when none
  currentRawStreamRef,  \* App ref: the raw stream buffer
  localStorageKey,      \* localStorage['geminiUserApiKey'], Null when absent
  currentStoredUserApiKey, \* App state
  envApiKey,            \* process.env.API_KEY, Undefined when not set
  download,             \* what the last handleSave handed to the browser,
                        \* <<>> if nothing
  currentAnimatedPreviewText, \* App state: Null, or the escapedDisplayContent
                        \* of the preview that is shown
  animatedPreviewClearTimeoutPending, \* a timeout set through
                        \* animatedPreviewClearTimeoutRef has yet to fire
  pc,                   \* where processQueue / generateQuestionsFromGemini stand
  apiKey,               \* processQueue: const apiKey
  pendingOrErrorRequests, \* processQueue: the ids of the requests snapshot
  closureQuestions,     \* processQueue: generatedQuestions as captured by the closure
  i,                    \* processQueue: for-loop index (0-based)
  overallAttempt,       \* processQueue
  successInRequest,     \* processQueue
  lastOverallAttemptError, \* processQueue
  totalJsonCorrectionAttemptsForThisRequest, \* processQueue
  jsonCorrectionAttempts,  \* generateQuestionsFromGemini
  lastGeminiRawOutput,     \* generateQuestionsFromGemini
  lastJsonErrorForReprompt, \* generateQuestionsFromGemini
  aggregatedStreamOutput,  \* generateQuestionsFromGemini
  responseStream,       \* the chunks of the open stream that have not arrived
  callResult,           \* what the last call of generateQuestionsFromGemini
                        \* returned or threw
  nextGenId,            \* number of the next generated question id
  nextRequestId,        \* number of the next request id
  chunksSinceReplace,   \* history: chunks passed to setLiveStreamContent since
                        \* the last call with replace = true
  streamSent,           \* history: the whole text the model sends on the
                        \* stream that was opened last
  correctionPromptsSent, \* history: correction re-prompts of the current call
  callLog,              \* history: the calls of generateQuestionsFromGemini of
                        \* the current run, <<request id, outcome,
                        \* existingQuestionsCsv passed>>
  reachedFinal,         \* history: ids whose status became Completed or Error
                        \* in the current run
  input,                \* argument of the pure function under check
  output                \* its result, Undefined until applied

appVars == <<requests, generatedQuestions, isProcessing, globalError,
             currentRawStreamRef, download, currentAnimatedPreviewText,
             animatedPreviewClearTimeoutPending>>
previewVars == <<currentAnimatedPreviewText, animatedPreviewClearTimeoutPending>>
keyVars == <<localStorageKey, currentStoredUserApiKey, envApiKey>>
queueVars == <<apiKey, pendingOrErrorRequests, closureQuestions, i,
               overallAttempt, successInRequest, lastOverallAttemptError,
               totalJsonCorrectionAttemptsForThisRequest>>
genVars == <<jsonCorrectionAttempts, lastGeminiRawOutput,
             lastJsonErrorForReprompt, aggregatedStreamOutput, responseStream,
             callResult, nextGenId>>
historyVars == <<chunksSinceReplace, streamSent, correctionPromptsSent,
                 callLog, reachedFinal>>
pureVars == <<input, output>>

vars == <<appVars, keyVars, queueVars, genVars, historyVars, pureVars, pc,
          nextRequestId>>

\* ------------------------------------------------------------------------
\* Initial state: the App component after its first effect has run
\* ------------------------------------------------------------------------
UserKey == <<"U">>
EnvKey == <<"E">>
UndefinedNumber == -1

\* a JavaScript value used as a condition: undefined, null and '' are falsy
Truthy(value) == value # Undefined /\ value # Null /\ value # <<>>

NoCallResult ==
  [kind |-> "none", error |-> "none", rawText |-> <<>>,
   parsedQuestions |-> <<>>, parsedData |-> <<>>,
   jsonCorrectionAttempts |-> 0]

Init ==
  /\ requests = <<>>
  /\ generatedQuestions = <<>>
  /\ isProcessing = FALSE
  /\ currentRawStreamRef = <<>>
  /\ localStorageKey \in {Null, UserKey}
  /\ currentStoredUserApiKey = localStorageKey
  /\ envApiKey \in {Undefined, EnvKey}
  /\ globalError = IF ~Truthy(envApiKey) /\ ~Truthy(localStorageKey)
                     THEN "apiKeyWarning" ELSE "null"
  /\ download = <<>>
  /\ currentAnimatedPreviewText = Null
  /\ animatedPreviewClearTimeoutPending = FALSE
  /\ pc = "idle"
  /\ apiKey = Undefined
  /\ pendingOrErrorRequests = <<>>
  /\ closureQuestions = <<>>
  /\ i = 0
  /\ overallAttempt = 0
  /\ successInRequest = FALSE
  /\ lastOverallAttemptError = "undefined"
  /\ totalJsonCorrectionAttemptsForThisRequest = 0
  /\ jsonCorrectionAttempts = 0
  /\ lastGeminiRawOutput = <<>>
  /\ lastJsonErrorForReprompt = "undefined"
  /\ aggregatedStreamOutput = <<>>
  /\ responseStream = <<>>
  /\ callResult = NoCallResult
  /\ nextGenId = 1
  /\ nextRequestId = 1
  /\ chunksSinceReplace = <<>>
  /\ streamSent = <<>>
  /\ correctionPromptsSent = 0
  /\ callLog = <<>>
  /\ reachedFinal = {}
  /\ input = Undefined
  /\ output = Undefined

\* ------------------------------------------------------------------------
\* App.tsx: handlers of the user interface
\* ------------------------------------------------------------------------
\* the event loop can run a handler: no processQueue is running, or the
\* running one is suspended at an await
UiReady == pc \in {"idle", "awaitStream", "streaming", "awaitCorrection"}

IndexOfRequest(reqs, id) ==
  IF \E k \in 1..Len(reqs) : reqs[k].id = id
    THEN CHOOSE k \in 1..Len(reqs) : reqs[k].id = id
    ELSE 0

\* a filter that leaves out only the request in Processing
IsNotProcessing(r) == r.status # "processing"

IsPendingOrError(r) == r.status = "pending" \/ r.status = "error"

\* a selection that prefers the key of the environment
getEffectiveApiKeyEnvFirst ==
  IF Truthy(envApiKey) THEN envApiKey ELSE currentStoredUserApiKey

getEffectiveApiKey ==
  IF Truthy(currentStoredUserApiKey) THEN currentStoredUserApiKey
  ELSE envApiKey

handleAddRequest ==
  /\ pc = "idle"
  /\ ~isProcessing
  /\ nextRequestId <= MaxRequests
  /\ requests' = Append(requests,
       [id |-> nextRequestId, status |-> "pending",
        errorDetails |-> "undefined",
        jsonCorrectionAttempts |-> UndefinedNumber,
        questionsGeneratedCount |-> UndefinedNumber])
  /\ nextRequestId' = nextRequestId + 1
  /\ UNCHANGED <<generatedQuestions, isProcessing, globalError,
                 currentRawStreamRef, download, previewVars, keyVars, queueVars, genVars,
                 historyVars, pureVars, pc>>

handleRemoveRequest(id) ==
  /\ UiReady
  /\ IndexOfRequest(requests, id) # 0
  /\ ~(isProcessing
       /\ requests[IndexOfRequest(requests, id)].status = "processing")
  /\ requests' = SelectSeq(requests, LAMBDA req : req.id # id)
  /\ UNCHANGED <<generatedQuestions, isProcessing, globalError,
                 currentRawStreamRef, download, previewVars, keyVars, queueVars, genVars,
                 historyVars, pureVars, pc, nextRequestId>>

handleSaveApiKey(userApiKeyInput) ==
  /\ UiReady
  /\ LET newKeyToStore == Trim(userApiKeyInput)
     IN IF Truthy(newKeyToStore)
          THEN /\ localStorageKey' = newKeyToStore
               /\ currentStoredUserApiKey' = newKeyToStore
          ELSE /\ localStorageKey' = Null
               /\ currentStoredUserApiKey' = Null
  /\ UNCHANGED <<appVars, envApiKey, queueVars, genVars, historyVars,
                 pureVars, pc, nextRequestId>>

handleResetApiKey ==
  /\ UiReady
  /\ localStorageKey' = Null
  /\ currentStoredUserApiKey' = Null
  /\ UNCHANGED <<appVars, envApiKey, queueVars, genVars, historyVars,
                 pureVars, pc, nextRequestId>>

handleDeleteGeneratedQuestion(questionId) ==
  /\ pc = "idle"
  /\ ~isProcessing
  /\ IndexOfId(generatedQuestions, questionId) # 0
  /\ generatedQuestions' =
       SelectSeq(generatedQuestions, LAMBDA q : q.id # questionId)
  /\ UNCHANGED <<requests, isProcessing, globalError, currentRawStreamRef,
                 download, previewVars, keyVars, queueVars, genVars, historyVars,
                 pureVars, pc, nextRequestId>>

\* ------------------------------------------------------------------------
\* App.tsx: setLiveStreamContentCallback (the raw stream buffer)
\* ------------------------------------------------------------------------
\* a callback that ignores replace
setLiveStreamContentAppends(buffer, chunk, replace) == buffer \o chunk

\* lines 546-551: the new value of currentRawStreamRef.current
setLiveStreamContent(buffer, chunk, replace) ==
  IF replace THEN chunk ELSE buffer \o chunk

\* ------------------------------------------------------------------------
\* App.tsx: setLiveStreamContentCallback (the animated preview)
\* ------------------------------------------------------------------------
\* streamSoFar.lastIndexOf(marker): 0-based, -1 when there is none
LastIndexOf(s, marker) ==
  LET at == {k \in 0..(Len(s) - Len(marker)) :
               SubSeq(s, k + 1, k + Len(marker)) = marker}
  IN IF at = {} THEN -1 ELSE CHOOSE k \in at : \A j \in at : j <= k

\* lines 561-569: the 0-based index after the opening quote of the value,
\* looked for from index i0; -1 when something else than ':', ' ', line
\* feed or tab comes first, or the text ends
RECURSIVE ValueStartIndex(_, _)
ValueStartIndex(streamSoFar, i0) ==
  IF i0 >= Len(streamSoFar) THEN -1
  ELSE IF streamSoFar[i0 + 1] = "\"" THEN i0 + 1
  ELSE IF streamSoFar[i0 + 1] \notin {":", " ", "\n", "\t"} THEN -1
  ELSE ValueStartIndex(streamSoFar, i0 + 1)

\* lines 574-588: contentBuffer when the loop from the 0-based index
\* valueStartIndex ends, at the first quote outside an escape or at the end
\* of the text. inEscape holds at an index exactly when the backslashes that
\* stand directly before it, counted from valueStartIndex, are odd in number
\* (a backslash outside an escape sets the flag, the next character clears
\* it); a backslash is kept in contentBuffer.
ScanValue(streamSoFar, valueStartIndex) ==
  LET n == Len(streamSoFar)
      runStart(j) ==
        CHOOSE a \in valueStartIndex..j :
          /\ \A m \in a..(j - 1) : streamSoFar[m + 1] = "\\"
          /\ (a = valueStartIndex \/ streamSoFar[a] # "\\")
      inEscape(j) ==
        /\ j > valueStartIndex
        /\ streamSoFar[j] = "\\"
        /\ (j - runStart(j)) % 2 = 1
      closing == {j \in valueStartIndex..(n - 1) :
                    streamSoFar[j + 1] = "\"" /\ ~inEscape(j)}
      end == IF closing = {} THEN n
             ELSE CHOOSE j \in closing : \A m \in closing : j <= m
  IN SubSeq(streamSoFar, valueStartIndex + 1, end)

\* a scan that starts at the first "Pregunta" key
latestPreguntaContentOfFirstKey(streamSoFar) ==
  LET keyMarker == Quoted(KeyPregunta)
      at == {k \in 0..(Len(streamSoFar) - Len(keyMarker)) :
               SubSeq(streamSoFar, k + 1, k + Len(keyMarker)) = keyMarker}
      firstIndex == IF at = {} THEN -1 ELSE CHOOSE k \in at : \A j \in at : k <= j
      valueStart[keyIndex \in -1..Len(streamSoFar)] ==
        IF keyIndex = -1 THEN -1
        ELSE ValueStartIndex(streamSoFar, keyIndex + Len(keyMarker))
      content[valueStartIndex \in -1..Len(streamSoFar)] ==
        IF valueStartIndex = -1 THEN <<>>
        ELSE ScanValue(streamSoFar, valueStartIndex)
  IN content[valueStart[firstIndex]]

\* lines 554-593: latestPreguntaContent after the scan of the stream so far
\* (whether the loop stops at a closing quote or at the end of the text, the
\* result is contentBuffer). The two steps are functions of the index they
\* start from, so that an index is worked out once.
latestPreguntaContent(streamSoFar) ==
  LET keyMarker == Quoted(KeyPregunta)
      valueStart[lastPreguntaKeyIndex \in -1..Len(streamSoFar)] ==
        IF lastPreguntaKeyIndex = -1 THEN -1
        ELSE ValueStartIndex(streamSoFar, lastPreguntaKeyIndex + Len(keyMarker))
      content[valueStartIndex \in -1..Len(streamSoFar)] ==
        IF valueStartIndex = -1 THEN <<>>
        ELSE ScanValue(streamSoFar, valueStartIndex)
  IN content[valueStart[LastIndexOf(streamSoFar, keyMarker)]]

\* lines 604-609: the five replacements, '&' first, so that every character
\* of the text is replaced once; the text is taken half by half
EscapeHtml(s) ==
  LET ofText[text \in {s}] ==
        LET escaped[from \in 1..(Len(text) + 1), to \in 0..Len(text)] ==
              IF from > to THEN <<>>
              ELSE IF from = to
                THEN (CASE text[from] = "&" -> <<"&", "a", "m", "p", ";">>
                        [] text[from] = "<" -> <<"&", "l", "t", ";">>
                        [] text[from] = ">" -> <<"&", "g", "t", ";">>
                        [] text[from] = "\"" -> <<"&", "q", "u", "o", "t", ";">>
                        [] text[from] = "'" -> <<"&", "#", "0", "3", "9", ";">>
                        [] OTHER -> <<text[from]>>)
              ELSE escaped[from, (from + to) \div 2]
                   \o escaped[(from + to) \div 2 + 1, to]
        IN escaped[1, Len(text)]
  IN ofText[s]

\* lines 600-609: escapedDisplayContent, the text that line 611 puts between
\* the fixed words 'Pregunta [' and '] generada!' of the preview
escapedDisplayContent(content) ==
  EscapeHtml(IF Len(content) > 70
               THEN Substring(content, 0, 67) \o <<".", ".", ".">>
               ELSE content)

\* lines 554-612: what a call of the callback does to the preview once
\* currentRawStreamRef.current is streamSoFar
PreviewUpdate(streamSoFar) ==
  \E latest \in {latestPreguntaContent(streamSoFar)} :
    IF latest # <<>>
      THEN /\ currentAnimatedPreviewText' = escapedDisplayContent(latest)
           /\ animatedPreviewClearTimeoutPending' = FALSE
      ELSE UNCHANGED previewVars

\* lines 730-732: the timeout set at the end of a run fires
PreviewClearTimeout ==
  /\ UiReady
  /\ animatedPreviewClearTimeoutPending
  /\ currentAnimatedPreviewText' = Null
  /\ animatedPreviewClearTimeoutPending' = FALSE
  /\ UNCHANGED <<requests, generatedQuestions, isProcessing, globalError,
                 currentRawStreamRef, download, keyVars, queueVars, genVars,
                 historyVars, pureVars, pc, nextRequestId>>

\* ------------------------------------------------------------------------
\* App.tsx: processQueue
\* ------------------------------------------------------------------------
\* an update that leaves jsonCorrectionAttempts as it was
UpdateRequestKeepsAttempts(prevReqs, id, status, errorDetails, attempts, count) ==
  [k \in 1..Len(prevReqs) |->
     IF prevReqs[k].id = id
       THEN [prevReqs[k] EXCEPT !.status = status,
                                !.errorDetails = errorDetails,
                                !.questionsGeneratedCount = count]
       ELSE prevReqs[k]]

\* setRequests(prevReqs => prevReqs.map(r => r.id === id ? {...r, ...} : r))
UpdateRequest(prevReqs, id, status, errorDetails, attempts, count) ==
  [k \in 1..Len(prevReqs) |->
     IF prevReqs[k].id = id
       THEN [prevReqs[k] EXCEPT !.status = status,
                                !.errorDetails = errorDetails,
                                !.jsonCorrectionAttempts = attempts,
                                !.questionsGeneratedCount = count]
       ELSE prevReqs[k]]

RequestIds(reqs) == [k \in 1..Len(reqs) |-> reqs[k].id]

currentRequest == pendingOrErrorRequests[i + 1]

\* line 648: the bank of existing questions sent along, computed from the
\* generatedQuestions the closure captured
existingQuestionsCsv ==
  IF Len(closureQuestions) > 0
    THEN generateCsvString(SelectSeq(closureQuestions,
           LAMBDA q : getQuestionTypeInfo(q) # "Empty"))
    ELSE Undefined

\* the click on "Generar Preguntas": lines 616-631
processQueue ==
  /\ pc = "idle"
  /\ ~isProcessing
  /\ \E k \in 1..Len(requests) : IsPendingOrError(requests[k])
  /\ IF ~Truthy(getEffectiveApiKey)
       THEN /\ globalError' = "noApiKey"
            /\ isProcessing' = FALSE
            /\ UNCHANGED <<queueVars, pc, callLog, reachedFinal>>
       ELSE /\ globalError' = "null"
            /\ isProcessing' = TRUE
            /\ apiKey' = getEffectiveApiKey
            /\ pendingOrErrorRequests' =
                 RequestIds(SelectSeq(requests, IsPendingOrError))
            /\ closureQuestions' = generatedQuestions
            /\ i' = 0
            /\ pc' = "for"
            /\ callLog' = <<>>
            /\ reachedFinal' = {}
            /\ UNCHANGED <<overallAttempt, successInRequest,
                           lastOverallAttemptError,
                           totalJsonCorrectionAttemptsForThisRequest>>
  /\ UNCHANGED <<requests, generatedQuestions, currentRawStreamRef, download, previewVars,
                 keyVars, genVars, chunksSinceReplace, streamSent,
                 correctionPromptsSent, pureVars, nextRequestId>>

\* lines 633-648: the next request of the snapshot starts
BeginRequest ==
  /\ pc = "for"
  /\ i < Len(pendingOrErrorRequests)
  /\ currentRawStreamRef' = <<>>
  /\ currentAnimatedPreviewText' = Null
  /\ animatedPreviewClearTimeoutPending' = FALSE
  /\ requests' = UpdateRequest(requests, currentRequest, "processing",
                               "undefined", 0, 0)
  /\ overallAttempt' = 0
  /\ successInRequest' = FALSE
  /\ lastOverallAttemptError' = "undefined"
  /\ totalJsonCorrectionAttemptsForThisRequest' = 0
  /\ pc' = "while"
  /\ UNCHANGED <<generatedQuestions, isProcessing, globalError, download,
                 keyVars, apiKey, pendingOrErrorRequests, closureQuestions, i,
                 genVars, historyVars, pureVars, nextRequestId>>

\* lines 727-728: the snapshot is exhausted
EndProcessQueue ==
  /\ pc = "for"
  /\ i >= Len(pendingOrErrorRequests)
  /\ isProcessing' = FALSE
  /\ animatedPreviewClearTimeoutPending' = TRUE
  /\ pc' = "idle"
  /\ callLog' = <<>>
  /\ reachedFinal' = {}
  /\ UNCHANGED <<requests, generatedQuestions, globalError,
                 currentRawStreamRef, download, currentAnimatedPreviewText,
                 keyVars, queueVars, genVars,
                 chunksSinceReplace, streamSent, correctionPromptsSent,
                 pureVars, nextRequestId>>

\* a loop that goes on after a success
RequestLoopIgnoresSuccess(attempt, success) ==
  attempt < MAX_OVERALL_REQUEST_ATTEMPTS

\* line 650: the condition of the while loop
RequestLoopContinues(attempt, success) ==
  attempt < MAX_OVERALL_REQUEST_ATTEMPTS /\ ~success

\* lines 650-654 and 249-330: one more overall attempt; the call of
\* generateQuestionsFromGemini runs up to its initial streaming request
CallGenerateQuestions ==
  /\ pc = "while"
  /\ RequestLoopContinues(overallAttempt, successInRequest)
  /\ jsonCorrectionAttempts' = 0
  /\ lastGeminiRawOutput' = <<>>
  /\ lastJsonErrorForReprompt' = "undefined"
  /\ aggregatedStreamOutput' = <<>>
  /\ currentRawStreamRef' = setLiveStreamContent(currentRawStreamRef, <<>>, TRUE)
  /\ PreviewUpdate(currentRawStreamRef')
  /\ chunksSinceReplace' = <<<<>>>>
  /\ streamSent' = <<>>
  /\ correctionPromptsSent' = 0
  /\ callLog' = Append(callLog,
                       <<currentRequest, "running", existingQuestionsCsv>>)
  /\ pc' = "awaitStream"
  /\ UNCHANGED <<requests, generatedQuestions, isProcessing, globalError,
                 download, keyVars, queueVars, responseStream, callResult,
                 nextGenId, reachedFinal, pureVars, nextRequestId>>

\* lines 722-724: the while loop is left, the for loop goes on
EndRequest ==
  /\ pc = "while"
  /\ ~RequestLoopContinues(overallAttempt, successInRequest)
  /\ i' = i + 1
  /\ pc' = "for"
  /\ UNCHANGED <<appVars, keyVars, apiKey, pendingOrErrorRequests,
                 closureQuestions, overallAttempt, successInRequest,
                 lastOverallAttemptError,
                 totalJsonCorrectionAttemptsForThisRequest, genVars,
                 historyVars, pureVars, nextRequestId>>

SetLastOutcome(log, outcome) ==
  [log EXCEPT ![Len(log)] = <<log[Len(log)][1], outcome, log[Len(log)][3]>>]

\* lines 667-704: the call returned
AttemptSucceeded ==
  /\ pc = "returned"
  /\ generatedQuestions' =
       MergeQuestions(generatedQuestions, callResult.parsedQuestions)
  /\ totalJsonCorrectionAttemptsForThisRequest' =
       callResult.jsonCorrectionAttempts
  /\ requests' = UpdateRequest(requests, currentRequest, "completed",
                               "undefined", callResult.jsonCorrectionAttempts,
                               Len(callResult.parsedQuestions))
  /\ successInRequest' = TRUE
  /\ overallAttempt' = overallAttempt + 1
  /\ callResult' = NoCallResult
  /\ callLog' = SetLastOutcome(callLog, "returned")
  /\ reachedFinal' =
       IF IndexOfRequest(requests, currentRequest) # 0
         THEN reachedFinal \cup {currentRequest} ELSE reachedFinal
  /\ pc' = "while"
  /\ UNCHANGED <<isProcessing, globalError, currentRawStreamRef, download, previewVars,
                 keyVars, apiKey, pendingOrErrorRequests, closureQuestions, i,
                 lastOverallAttemptError, jsonCorrectionAttempts,
                 lastGeminiRawOutput, lastJsonErrorForReprompt,
                 aggregatedStreamOutput, responseStream, nextGenId,
                 chunksSinceReplace, streamSent, correctionPromptsSent,
                 pureVars, nextRequestId>>

\* a last attempt that is never recognised
IsLastAttemptOffByOne(attempt) == attempt = MAX_OVERALL_REQUEST_ATTEMPTS

\* line 717: the attempt that failed was the last one
IsLastAttempt(attempt) == attempt = MAX_OVERALL_REQUEST_ATTEMPTS - 1

\* lines 706-722: the call threw (the errors it throws carry no
\* jsonCorrectionAttempts property, so the total keeps its value)
AttemptFailed ==
  /\ pc = "threw"
  /\ lastOverallAttemptError' = callResult.error
  /\ IF IsLastAttempt(overallAttempt)
       THEN /\ requests' = UpdateRequest(requests, currentRequest, "error",
                             callResult.error,
                             totalJsonCorrectionAttemptsForThisRequest, 0)
            /\ reachedFinal' =
                 IF IndexOfRequest(requests, currentRequest) # 0
                   THEN reachedFinal \cup {currentRequest} ELSE reachedFinal
       ELSE UNCHANGED <<requests, reachedFinal>>
  /\ overallAttempt' = overallAttempt + 1
  /\ callResult' = NoCallResult
  /\ callLog' = SetLastOutcome(callLog, "threw")
  /\ pc' = "while"
  /\ UNCHANGED <<generatedQuestions, isProcessing, globalError,
                 currentRawStreamRef, download, previewVars, keyVars, apiKey,
                 pendingOrErrorRequests, closureQuestions, i,
                 successInRequest, totalJsonCorrectionAttemptsForThisRequest,
                 jsonCorrectionAttempts, lastGeminiRawOutput,
                 lastJsonErrorForReprompt, aggregatedStreamOutput,
                 responseStream, nextGenId, chunksSinceReplace, streamSent,
                 correctionPromptsSent, pureVars, nextRequestId>>

\* ------------------------------------------------------------------------
\* services/geminiService.ts: generateQuestionsFromGemini
\* ------------------------------------------------------------------------
\* the function returns to, or throws into, processQueue; its locals end
LeaveCall(result) ==
  /\ callResult' = result
  /\ jsonCorrectionAttempts' = 0
  /\ lastGeminiRawOutput' = <<>>
  /\ lastJsonErrorForReprompt' = "undefined"
  /\ aggregatedStreamOutput' = <<>>
  /\ responseStream' = <<>>

Thrown(msg) == [NoCallResult EXCEPT !.kind = "threw", !.error = msg]

\* line 324: generateContentStream resolves, the model starts to answer
StreamOpens(Texts, maxChunks) ==
  /\ pc = "awaitStream"
  /\ \E text \in Texts :
       \E chunks \in Chunkings(text, maxChunks) :
         /\ responseStream' = chunks
         /\ streamSent' = text
  /\ pc' = "streaming"
  /\ UNCHANGED <<appVars, keyVars, queueVars, jsonCorrectionAttempts,
                 lastGeminiRawOutput, lastJsonErrorForReprompt,
                 aggregatedStreamOutput, callResult, nextGenId,
                 chunksSinceReplace, correctionPromptsSent, callLog,
                 reachedFinal, pureVars, nextRequestId>>

\* lines 333-340: one chunk arrives
StreamChunk ==
  /\ pc = "streaming"
  /\ responseStream # <<>>
  /\ LET chunkText == Head(responseStream)
     IN IF chunkText # <<>>
          THEN /\ aggregatedStreamOutput' = aggregatedStreamOutput \o chunkText
               /\ currentRawStreamRef' =
                    setLiveStreamContent(currentRawStreamRef, chunkText, FALSE)
               /\ PreviewUpdate(currentRawStreamRef')
               /\ chunksSinceReplace' = Append(chunksSinceReplace, chunkText)
          ELSE UNCHANGED <<aggregatedStreamOutput, currentRawStreamRef,
                           previewVars, chunksSinceReplace>>
  /\ responseStream' = Tail(responseStream)
  /\ UNCHANGED <<requests, generatedQuestions, isProcessing, globalError,
                 download, keyVars, queueVars, jsonCorrectionAttempts,
                 lastGeminiRawOutput, lastJsonErrorForReprompt, callResult,
                 nextGenId, streamSent, correctionPromptsSent, callLog,
                 reachedFinal, pureVars, pc, nextRequestId>>

\* line 341: the stream ends
StreamEnds ==
  /\ pc = "streaming"
  /\ responseStream = <<>>
  /\ lastGeminiRawOutput' = aggregatedStreamOutput
  /\ streamSent' = <<>>
  /\ pc' = "loop"
  /\ UNCHANGED <<appVars, keyVars, queueVars, jsonCorrectionAttempts,
                 lastJsonErrorForReprompt, aggregatedStreamOutput,
                 responseStream, callResult, nextGenId, chunksSinceReplace,
                 correctionPromptsSent, callLog, reachedFinal, pureVars,
                 nextRequestId>>

\* a catch block that hands the stream error to the correction loop
StreamThrowsIntoLoop ==
  /\ pc \in {"awaitStream", "streaming"}
  /\ lastGeminiRawOutput' = aggregatedStreamOutput
  /\ lastJsonErrorForReprompt' = "streamError"
  /\ responseStream' = <<>>
  /\ streamSent' = <<>>
  /\ pc' = "loop"
  /\ UNCHANGED <<appVars, keyVars, queueVars, jsonCorrectionAttempts,
                 aggregatedStreamOutput, callResult, nextGenId,
                 chunksSinceReplace, correctionPromptsSent, callLog,
                 reachedFinal, pureVars, nextRequestId>>

\* lines 344-347: the streaming request, or the stream, throws
StreamThrows ==
  /\ pc \in {"awaitStream", "streaming"}
  /\ LeaveCall(Thrown("streamError"))
  /\ streamSent' = <<>>
  /\ pc' = "threw"
  /\ UNCHANGED <<appVars, keyVars, queueVars, nextGenId, chunksSinceReplace,
                 correctionPromptsSent, callLog, reachedFinal, pureVars,
                 nextRequestId>>

\* a loop that never gives up
CorrectionLoopUnbounded(attempts) == attempts >= 0

\* line 350: the condition of the while loop
CorrectionLoopContinues(attempts) == attempts < MAX_JSON_CORRECTION_ATTEMPTS

\* lines 350-360, for jsonCorrectionAttempts > 0: a correction re-prompt
SendCorrectionPrompt ==
  /\ pc = "loop"
  /\ CorrectionLoopContinues(jsonCorrectionAttempts)
  /\ jsonCorrectionAttempts > 0
  /\ correctionPromptsSent' = correctionPromptsSent + 1
  /\ pc' = "awaitCorrection"
  /\ UNCHANGED <<appVars, keyVars, queueVars, genVars, chunksSinceReplace,
                 streamSent, callLog, reachedFinal, pureVars, nextRequestId>>

\* line 361: the answer to the re-prompt
CorrectionReturns(Texts) ==
  /\ pc = "awaitCorrection"
  /\ \E text \in Texts : lastGeminiRawOutput' = text
  /\ pc' = "validate"
  /\ UNCHANGED <<appVars, keyVars, queueVars, jsonCorrectionAttempts,
                 lastJsonErrorForReprompt, aggregatedStreamOutput,
                 responseStream, callResult, nextGenId, historyVars,
                 pureVars, nextRequestId>>

\* lines 356, 451-457: the re-prompt throws and the catch block counts it
CorrectionThrows ==
  /\ pc = "awaitCorrection"
  /\ lastJsonErrorForReprompt' = "networkError"
  /\ jsonCorrectionAttempts' = jsonCorrectionAttempts + 1
  /\ pc' = "loop"
  /\ UNCHANGED <<appVars, keyVars, queueVars, lastGeminiRawOutput,
                 aggregatedStreamOutput, responseStream, callResult,
                 nextGenId, historyVars, pureVars, nextRequestId>>

\* line 350 with jsonCorrectionAttempts = 0: the streamed output is checked
CheckInitialOutput ==
  /\ pc = "loop"
  /\ CorrectionLoopContinues(jsonCorrectionAttempts)
  /\ jsonCorrectionAttempts = 0
  /\ pc' = "validate"
  /\ UNCHANGED <<appVars, keyVars, queueVars, genVars, historyVars,
                 pureVars, nextRequestId>>

\* lines 365-457: the answer is parsed and validated
ValidateAnswer ==
  /\ pc = "validate"
  /\ LET v == ValidateOutput(lastGeminiRawOutput, nextGenId)
     IN IF v.ok
          THEN /\ LeaveCall([kind |-> "returned", error |-> "none",
                             rawText |-> lastGeminiRawOutput,
                             parsedQuestions |-> v.parsedQuestions,
                             parsedData |-> v.parsedData,
                             jsonCorrectionAttempts |-> jsonCorrectionAttempts])
               /\ nextGenId' = nextGenId + FreshIdsUsed(v.parsedData)
               /\ pc' = "returned"
          ELSE /\ lastJsonErrorForReprompt' = v.error
               /\ jsonCorrectionAttempts' = jsonCorrectionAttempts + 1
               /\ pc' = "loop"
               /\ UNCHANGED <<lastGeminiRawOutput, aggregatedStreamOutput,
                              responseStream, callResult, nextGenId>>
  /\ UNCHANGED <<appVars, keyVars, queueVars, historyVars, pureVars,
                 nextRequestId>>

\* lines 460-462: the loop is left, the final error is thrown
ThrowAllAttemptsFailed ==
  /\ pc = "loop"
  /\ ~CorrectionLoopContinues(jsonCorrectionAttempts)
  /\ LeaveCall(Thrown("allCorrectionAttemptsFailed"))
  /\ pc' = "threw"
  /\ UNCHANGED <<appVars, keyVars, queueVars, nextGenId, historyVars,
                 pureVars, nextRequestId>>

\* ------------------------------------------------------------------------
\* The application
\* ------------------------------------------------------------------------
KeyInputs == {<<>>, <<" ">>, UserKey, <<" ">> \o UserKey \o <<" ">>}

QueueAnswers == AnswerTexts(QueueJsonValues, QueueOtherTexts, nextGenId)

Next ==
  \/ handleAddRequest
  \/ PreviewClearTimeout
  \/ \E id \in 1..MaxRequests : handleRemoveRequest(id)
  \/ \E userApiKeyInput \in KeyInputs : handleSaveApiKey(userApiKeyInput)
  \/ handleResetApiKey
  \/ processQueue
  \/ BeginRequest
  \/ EndProcessQueue
  \/ CallGenerateQuestions
  \/ EndRequest
  \/ AttemptSucceeded
  \/ AttemptFailed
  \/ StreamOpens(QueueAnswers, 1)
  \/ StreamChunk
  \/ StreamEnds
  \/ StreamThrows
  \/ SendCorrectionPrompt
  \/ CorrectionReturns(QueueAnswers)
  \/ CorrectionThrows
  \/ CheckInitialOutput
  \/ ValidateAnswer
  \/ ThrowAllAttemptsFailed

Spec == Init /\ [][Next]_vars

\* ------------------------------------------------------------------------
\* The queue alone: MaxQueue requests wait, a key is configured, and the
\* user does nothing but remove requests and start the processing
\* ------------------------------------------------------------------------
PendingRequest(n) ==
  [id |-> n, status |-> "pending", errorDetails |-> "undefined",
   jsonCorrectionAttempts |-> UndefinedNumber,
   questionsGeneratedCount |-> UndefinedNumber]

InitApp ==
  /\ isProcessing = FALSE
  /\ currentRawStreamRef = <<>>
  /\ localStorageKey = Null
  /\ currentStoredUserApiKey = Null
  /\ envApiKey = EnvKey
  /\ globalError = "null"
  /\ download = <<>>
  /\ currentAnimatedPreviewText = Null
  /\ animatedPreviewClearTimeoutPending = FALSE
  /\ pc = "idle"
  /\ apiKey = Undefined
  /\ pendingOrErrorRequests = <<>>
  /\ closureQuestions = <<>>
  /\ i = 0
  /\ overallAttempt = 0
  /\ successInRequest = FALSE
  /\ lastOverallAttemptError = "undefined"
  /\ totalJsonCorrectionAttemptsForThisRequest = 0
  /\ jsonCorrectionAttempts = 0
  /\ lastGeminiRawOutput = <<>>
  /\ lastJsonErrorForReprompt = "undefined"
  /\ aggregatedStreamOutput = <<>>
  /\ responseStream = <<>>
  /\ callResult = NoCallResult
  /\ chunksSinceReplace = <<>>
  /\ streamSent = <<>>
  /\ correctionPromptsSent = 0
  /\ callLog = <<>>
  /\ reachedFinal = {}

InitIdle ==
  /\ InitApp
  /\ input = Undefined
  /\ output = Undefined

InitQueue ==
  /\ InitIdle
  /\ requests = [n \in 1..MaxQueue |-> PendingRequest(n)]
  /\ nextRequestId = MaxQueue + 1
  /\ generatedQuestions = <<>>
  /\ nextGenId = 1

NextQueue ==
  \/ PreviewClearTimeout
  \/ \E id \in 1..MaxQueue : handleRemoveRequest(id)
  \/ processQueue
  \/ BeginRequest
  \/ EndProcessQueue
  \/ CallGenerateQuestions
  \/ EndRequest
  \/ AttemptSucceeded
  \/ AttemptFailed
  \/ StreamOpens(QueueAnswers, 1)
  \/ StreamChunk
  \/ StreamEnds
  \/ StreamThrows
  \/ SendCorrectionPrompt
  \/ CorrectionReturns(QueueAnswers)
  \/ CorrectionThrows
  \/ CheckInitialOutput
  \/ ValidateAnswer
  \/ ThrowAllAttemptsFailed

SpecQueue == InitQueue /\ [][NextQueue]_vars

\* the steps of a started run: the continuations of processQueue, which the
\* event loop runs as soon as they are ready, and the answers of the model,
\* which is assumed to return or throw on every call
RunStep ==
  \/ BeginRequest
  \/ EndProcessQueue
  \/ CallGenerateQuestions
  \/ EndRequest
  \/ AttemptSucceeded
  \/ AttemptFailed
  \/ StreamOpens(QueueAnswers, 1)
  \/ StreamChunk
  \/ StreamEnds
  \/ StreamThrows
  \/ SendCorrectionPrompt
  \/ CorrectionReturns(QueueAnswers)
  \/ CorrectionThrows
  \/ CheckInitialOutput
  \/ ValidateAnswer
  \/ ThrowAllAttemptsFailed

\* MaxRequests requests wait and a key is configured
InitFair ==
  /\ InitIdle
  /\ requests = [n \in 1..MaxRequests |-> PendingRequest(n)]
  /\ nextRequestId = MaxRequests + 1
  /\ generatedQuestions = <<>>
  /\ nextGenId = 1

SpecFair == InitFair /\ [][NextQueue]_vars /\ WF_vars(RunStep)

\* ------------------------------------------------------------------------
\* One request in detail: a table left by earlier requests, one waiting
\* request, and every answer and chunking the model may give
\* ------------------------------------------------------------------------
ExistingQuestion(id) ==
  QuestionData(id, TextP, TextA, Undefined, Undefined, Undefined, Undefined,
               Undefined, TextE)

InitTables ==
  {t \in SeqsUpTo({ExistingQuestion(id) :
                     id \in {GenId(n) : n \in 1..MaxInitTable} \cup {ForeignId}},
                  MaxInitTable) :
     \A j, k \in 1..Len(t) : j # k => t[j].id # t[k].id}

InitGen ==
  /\ InitIdle
  /\ requests = <<PendingRequest(1)>>
  /\ nextRequestId = 2
  /\ generatedQuestions \in InitTables
  /\ nextGenId = MaxInitTable + 1

GenAnswers == AnswerTexts(ModelJsonValues, OtherModelTexts, nextGenId)

\* the answers to a correction re-prompt that are followed in detail
CorrectionJsonValues ==
  {JsonArray(<<>>), JsonArray(<<NewItem>>),
   JsonArray(<<RewrittenItem(GenId(1))>>), JsonArray(<<BlankPreguntaItem>>)}
CorrectionAnswers ==
  AnswerTexts(CorrectionJsonValues, {<<" ">>, <<"x">>}, nextGenId)

NextGen ==
  \/ PreviewClearTimeout
  \/ processQueue
  \/ BeginRequest
  \/ EndProcessQueue
  \/ CallGenerateQuestions
  \/ EndRequest
  \/ AttemptSucceeded
  \/ AttemptFailed
  \/ StreamOpens(GenAnswers, MaxChunks)
  \/ StreamChunk
  \/ StreamEnds
  \/ StreamThrows
  \/ SendCorrectionPrompt
  \/ CorrectionReturns(CorrectionAnswers)
  \/ CorrectionThrows
  \/ CheckInitialOutput
  \/ ValidateAnswer
  \/ ThrowAllAttemptsFailed

SpecGen == InitGen /\ [][NextGen]_vars

\* ------------------------------------------------------------------------
\* The classifier alone: getQuestionTypeInfo applied to one question
\* ------------------------------------------------------------------------
FieldValues == {Undefined, <<>>, <<" ">>, <<"a">>}

TypeInputs ==
  {QuestionData(GenId(1), p, c1, c2, c3, i1, i2, i3, Undefined) :
     p \in FieldValues, c1 \in FieldValues, c2 \in FieldValues,
     c3 \in FieldValues, i1 \in FieldValues, i2 \in FieldValues,
     i3 \in FieldValues}

InitNoRequests ==
  /\ InitApp
  /\ requests = <<>>
  /\ nextRequestId = 1
  /\ nextGenId = 1

InitType ==
  /\ InitNoRequests
  /\ generatedQuestions = <<>>
  /\ input \in TypeInputs
  /\ output = <<>>

ApplyGetQuestionTypeInfo ==
  /\ output = <<>>
  /\ output' = <<getQuestionTypeInfo(input)>>
  /\ UNCHANGED <<appVars, keyVars, queueVars, genVars, historyVars, input,
                 pc, nextRequestId>>

NextType == ApplyGetQuestionTypeInfo

SpecType == InitType /\ [][NextType]_vars

\* ------------------------------------------------------------------------
\* The preview while one answer streams in: the call of generateQuestions
\* for the only request has been made and its stream has opened
\* ------------------------------------------------------------------------
MaxPreviewChunks == 3
LongValueLen == 71

PreguntaKey == Quoted(KeyPregunta)
LongValue == [k \in 1..LongValueLen |-> "x"]

\* answers as the model streams them: a value with an escaped quote and
\* characters that HTML escapes, two questions, a second key whose value is
\* empty or null, a value of more than 70 characters, and no key at all
PreviewTexts ==
  { <<"{">> \o PreguntaKey \o <<":", " ">>
      \o Quoted(<<"a", "\\", "\"", "<">>) \o <<"}">>,
    <<"{">> \o PreguntaKey \o <<":">> \o Quoted(<<"a">>) \o <<"}", ",", "{">>
      \o PreguntaKey \o <<":">> \o Quoted(<<"b", "&">>) \o <<"}">>,
    <<"{">> \o PreguntaKey \o <<":">> \o Quoted(<<"a">>) \o <<"}", ",", "{">>
      \o PreguntaKey \o <<":">> \o Quoted(<<>>) \o <<"}">>,
    <<"{">> \o PreguntaKey \o <<":">> \o Quoted(<<"a">>) \o <<",">>
      \o PreguntaKey \o <<":", "n", "u", "l", "l", "}">>,
    PreguntaKey \o <<":">> \o Quoted(LongValue),
    EmptyArrayText }

\* a text cut into at most n chunks, none of them empty
RECURSIVE Splits(_, _)
Splits(text, n) ==
  IF n <= 1 \/ Len(text) <= 1 THEN {<<text>>}
  ELSE {<<text>>} \cup
       UNION {{<<SubSeq(text, 1, k)>> \o rest :
                 rest \in Splits(SubSeq(text, k + 1, Len(text)), n - 1)} :
              k \in 1..(Len(text) - 1)}

\* the state once CallGenerateQuestions and StreamOpens have run for the
\* first request of a run
InitPreview ==
  /\ requests = <<[id |-> 1, status |-> "processing",
                   errorDetails |-> "undefined", jsonCorrectionAttempts |-> 0,
                   questionsGeneratedCount |-> 0]>>
  /\ nextRequestId = 2
  /\ generatedQuestions = <<>>
  /\ nextGenId = 1
  /\ isProcessing = TRUE
  /\ currentRawStreamRef = <<>>
  /\ localStorageKey = Null
  /\ currentStoredUserApiKey = Null
  /\ envApiKey = EnvKey
  /\ globalError = "null"
  /\ download = <<>>
  /\ currentAnimatedPreviewText = Null
  /\ animatedPreviewClearTimeoutPending = FALSE
  /\ pc = "streaming"
  /\ apiKey = EnvKey
  /\ pendingOrErrorRequests = <<1>>
  /\ closureQuestions = <<>>
  /\ i = 0
  /\ overallAttempt = 0
  /\ successInRequest = FALSE
  /\ lastOverallAttemptError = "undefined"
  /\ totalJsonCorrectionAttemptsForThisRequest = 0
  /\ jsonCorrectionAttempts = 0
  /\ lastGeminiRawOutput = <<>>
  /\ lastJsonErrorForReprompt = "undefined"
  /\ aggregatedStreamOutput = <<>>
  /\ callResult = NoCallResult
  /\ chunksSinceReplace = <<<<>>>>
  /\ correctionPromptsSent = 0
  /\ callLog = <<<<1, "running", Undefined>>>>
  /\ reachedFinal = {}
  /\ input = Undefined
  /\ output = Undefined
  /\ \E text \in PreviewTexts :
       /\ streamSent = text
       /\ responseStream \in Splits(text, MaxPreviewChunks)

NextPreview ==
  \/ StreamChunk
  \/ StreamEnds
  \/ StreamThrows

SpecPreview == InitPreview /\ [][NextPreview]_vars

\* ------------------------------------------------------------------------
\* The CSV helpers alone: one question exported and its data row parsed
\* ------------------------------------------------------------------------
CsvAlphabet == {"a", ",", "\"", " "}
CsvStrings == SeqsUpTo(CsvAlphabet, MaxCsvLen)

CsvInputs ==
  {QuestionData(GenId(1), p, c1, Undefined, <<>>, Undefined, Undefined,
                Undefined, e) :
     p \in CsvStrings, c1 \in CsvStrings \cup {Undefined}, e \in CsvStrings}

InitCsv ==
  /\ InitNoRequests
  /\ generatedQuestions = <<>>
  /\ input \in CsvInputs
  /\ output = <<>>

\* the line of the exported file that holds the question
ExportedDataRow(q) == SplitLines(generateCsvString(<<q>>))[2]

ExportThenParse ==
  /\ output = <<>>
  /\ output' = <<parseCsvLineRobust(ExportedDataRow(input))>>
  /\ UNCHANGED <<appVars, keyVars, queueVars, genVars, historyVars, input,
                 pc, nextRequestId>>

NextCsv == ExportThenParse

SpecCsv == InitCsv /\ [][NextCsv]_vars

\* ------------------------------------------------------------------------
\* App.tsx: handleSave, on a table the user has filled in
\* ------------------------------------------------------------------------
\* an export that leaves nothing out
QuestionsToSaveAll(table) == table

\* lines 750-752: the questions that are neither Empty nor Unknown
QuestionsToSave(table) ==
  SelectSeq(table, LAMBDA q : getQuestionTypeInfo(q) # "Empty"
                              /\ getQuestionTypeInfo(q) # "Unknown")

\* lines 737-780; download is what this call hands to the browser, input
\* records the table the call has read
handleSave(format) ==
  /\ UiReady
  /\ LET unknownQuestionsExist ==
           \E k \in 1..Len(generatedQuestions) :
             getQuestionTypeInfo(generatedQuestions[k]) = "Unknown"
         questionsToSave == QuestionsToSave(generatedQuestions)
     IN IF unknownQuestionsExist
          THEN globalError' = "unknownQuestions" /\ download' = <<>>
        ELSE IF Len(questionsToSave) = 0
          THEN globalError' = "noValidQuestions" /\ download' = <<>>
        ELSE /\ globalError' = "null"
             /\ download' =
                  <<[format |-> format, questions |-> questionsToSave]>>
  /\ input' = <<generatedQuestions>>
  /\ UNCHANGED <<requests, generatedQuestions, isProcessing,
                 currentRawStreamRef, previewVars, keyVars, queueVars, genVars,
                 historyVars, output, pc, nextRequestId>>

\* the rows a user may have typed or imported: by the fields that are
\* filled, two Empty rows, one row of each type that is exported, and three
\* rows of Unknown type
SaveFillings ==
  {{}, {"c1", "i1"}, {"p", "c1"}, {"p", "c2"}, {"p", "c1", "i1"},
   {"p", "c1", "c2", "i1"}, {"p", "c1", "i1", "i2"}, {"p"},
   {"p", "c2", "i1"}, {"p", "c1", "i2"}}

SaveQuestions(id) ==
  {QuestionData(id,
                IF "p" \in f THEN TextP ELSE <<>>,
                IF "c1" \in f THEN TextA ELSE <<>>,
                IF "c2" \in f THEN TextB ELSE Undefined,
                Undefined,
                IF "i1" \in f THEN TextA ELSE <<>>,
                IF "i2" \in f THEN TextB ELSE <<" ">>,
                Undefined, Undefined) : f \in SaveFillings}

\* the tables of n such rows, the k-th row with the k-th id
RECURSIVE TablesOf(_)
TablesOf(n) ==
  IF n = 0 THEN {<<>>}
  ELSE {Append(t, q) : t \in TablesOf(n - 1), q \in SaveQuestions(GenId(n))}

SaveTables == UNION {TablesOf(n) : n \in 0..MaxSaveTable}

InitSave ==
  /\ InitNoRequests
  /\ generatedQuestions \in SaveTables
  /\ input = <<>>
  /\ output = <<>>

NextSave ==
  \/ \E format \in {"csv", "json"} : handleSave(format)
  \/ \E k \in 1..MaxSaveTable : handleDeleteGeneratedQuestion(GenId(k))

SpecSave == InitSave /\ [][NextSave]_vars

\* ------------------------------------------------------------------------
\* App.tsx: handleFileChange, the branch of a .csv file whose text has been
\* read
\* ------------------------------------------------------------------------
MaxImportLines == 2

\* a header check that counts the fields only
isValidHeaderLengthOnly(parsedHeader) == Len(parsedHeader) = Len(CSV_HEADERS)

\* line 870: isValidHeader
isValidHeader(parsedHeader) ==
  /\ Len(CSV_HEADERS) = Len(parsedHeader)
  /\ \A k \in 1..Len(CSV_HEADERS) : Trim(parsedHeader[k]) = Trim(CSV_HEADERS[k])

\* line 883: the id of an imported question. Its text is made of Date.now()
\* and seven random characters; the model numbers the ids, which takes two
\* ids of the program to differ.
csvImportId(n) ==
  <<"c", "s", "v", "-">> \o <<<<"0", "1", "2", "3", "4", "5", "6", "7", "8", "9">>[n + 1]>>

\* lines 873-889: newQuestions once the for loop has gone from the 1-based
\* line k to the last line, n being the number of the next id
RECURSIVE CsvImportLoop(_, _, _, _)
CsvImportLoop(lines, k, newQuestions, n) ==
  IF k > Len(lines) THEN newQuestions
  ELSE IF Trim(lines[k]) = <<>> THEN CsvImportLoop(lines, k + 1, newQuestions, n)
  ELSE LET fields == parseCsvLineRobust(lines[k])
           value(j) == IF fields[j] = <<>> THEN Undefined ELSE fields[j]
       IN IF Len(fields) # Len(CSV_HEADERS)
            THEN CsvImportLoop(lines, k + 1, newQuestions, n)
            ELSE CsvImportLoop(lines, k + 1,
                   Append(newQuestions,
                          QuestionData(csvImportId(n), value(1), value(2),
                                       value(3), value(4), value(5), value(6),
                                       value(7), value(8))),
                   n + 1)

\* lines 851-889 and 942-948: reader.onload for a .csv file with this text;
\* input records the text
handleFileChange(text) ==
  /\ UiReady
  /\ input' = <<text>>
  /\ IF text = <<>>
       THEN /\ globalError' = "fileEmpty"
            /\ UNCHANGED <<generatedQuestions, nextGenId>>
       ELSE LET lines == SplitLines(text)
                parsedHeader == parseCsvLineRobust(lines[1])
                newQuestions == CsvImportLoop(lines, 2, <<>>, nextGenId)
            IN IF Len(lines) < 2 \/ ~isValidHeader(parsedHeader)
                 THEN /\ globalError' = "fileProcessing"
                      /\ UNCHANGED <<generatedQuestions, nextGenId>>
                 ELSE /\ generatedQuestions' = generatedQuestions \o newQuestions
                      /\ nextGenId' = nextGenId + Len(newQuestions)
                      /\ globalError' = "null"
  /\ UNCHANGED <<requests, isProcessing, currentRawStreamRef, download,
                 previewVars, keyVars, queueVars, jsonCorrectionAttempts,
                 lastGeminiRawOutput, lastJsonErrorForReprompt,
                 aggregatedStreamOutput, responseStream, callResult,
                 historyVars, output, pc, nextRequestId>>

\* files to import: no text at all, a header alone, and a header followed
\* by up to MaxImportLines lines. The headers are the one of an export, the
\* same with blanks around fields and with a quoted field, one with a wrong
\* name and one with seven fields; the lines have eight fields (one of them
\* quoted with a comma, or all of them empty), seven, nine, or are blank.
ImportTexts ==
  LET headerRow == Join(CSV_HEADERS, <<",">>)
      headers ==
        { headerRow,
          <<" ">> \o headerRow \o <<" ">>,
          Quoted(CSV_HEADERS[1]) \o <<",">> \o Join(Tail(CSV_HEADERS), <<",">>),
          Join([CSV_HEADERS EXCEPT ![2] = CSV_HEADERS[3]], <<",">>),
          Join(SubSeq(CSV_HEADERS, 1, 7), <<",">>) }
      dataLines ==
        { <<"P", ",", "A", ",", ",", ",", "B", ",", ",", ",", "E">>,
          <<"\"", "P", ",", "Q", "\"", ",", " ", "A", " ", ",", ",", ",",
            ",", ",", ",">>,
          <<",", ",", ",", ",", ",", ",", ",">>,
          <<"P", ",", "A", ",", ",", ",", "B", ",", ",", "E">>,
          <<"P", ",", "A", ",", ",", ",", "B", ",", ",", ",", "E", ",">>,
          <<>>,
          <<" ">> }
      bodies == UNION {[1..n -> dataLines] : n \in 1..MaxImportLines}
  IN {<<>>} \cup headers
     \cup {Join(<<h>> \o b, sep) :
             h \in headers, b \in bodies, sep \in {<<"\n">>, <<"\r", "\n">>}}

\* a table with nothing, with a question of a generation, or with a question
\* of an earlier import
InitImport ==
  /\ InitApp
  /\ requests = <<>>
  /\ nextRequestId = 1
  /\ nextGenId = 2
  /\ generatedQuestions \in
       {<<>>, <<ExistingQuestion(GenId(1))>>, <<ExistingQuestion(csvImportId(1))>>}
  /\ input = <<>>
  /\ output = <<>>

NextImport == input = <<>> /\ \E text \in ImportTexts : handleFileChange(text)

SpecImport == InitImport /\ [][NextImport]_vars

\* ========================================================================
\* Properties
\* ========================================================================
\* the control points inside one call of generateQuestionsFromGemini
CallPcs == {"awaitStream", "streaming", "loop", "awaitCorrection", "validate"}

\* every returned question passed the validation of lines 392-403
Validated(questions) ==
  \A k \in 1..Len(questions) :
    /\ IsString(questions[k].Pregunta) /\ Trim(questions[k].Pregunta) # <<>>
    /\ IsString(questions[k].OpcionCorrecta1)
    /\ Trim(questions[k].OpcionCorrecta1) # <<>>

\* how far a call is from its end: it decreases with every step of the call
CallMeasure ==
  CASE pc = "awaitStream" -> 4 * MAX_JSON_CORRECTION_ATTEMPTS + 6 + MaxChunks
    [] pc = "streaming" ->
         4 * MAX_JSON_CORRECTION_ATTEMPTS + 4 + Len(responseStream)
    [] pc = "loop" -> 4 * (MAX_JSON_CORRECTION_ATTEMPTS - jsonCorrectionAttempts) + 3
    [] pc = "awaitCorrection" ->
         4 * (MAX_JSON_CORRECTION_ATTEMPTS - jsonCorrectionAttempts) + 2
    [] pc = "validate" ->
         4 * (MAX_JSON_CORRECTION_ATTEMPTS - jsonCorrectionAttempts) + 1
    [] OTHER -> 0

C1_CallEnding ==
  /\ correctionPromptsSent <= MAX_JSON_CORRECTION_ATTEMPTS
  /\ pc = "returned" =>
       callResult.kind = "returned" /\ Validated(callResult.parsedQuestions)
  /\ pc = "threw" =>
       \/ callResult.error = "allCorrectionAttemptsFailed"
       \/ callResult.error = "streamError" /\ correctionPromptsSent = 0
  /\ pc = "streaming" => ENABLED (StreamChunk \/ StreamEnds)
  /\ pc = "loop" =>
       ENABLED (CheckInitialOutput \/ SendCorrectionPrompt
                  \/ ThrowAllAttemptsFailed)

CallsFor(id) == SelectSeq(callLog, LAMBDA c : c[1] = id)

\* the current run is done with the request: the for loop has passed it
Finished(id) ==
  /\ isProcessing
  /\ \E k \in 1..Len(pendingOrErrorRequests) :
       k <= i /\ pendingOrErrorRequests[k] = id

StatusOf(id) == requests[IndexOfRequest(requests, id)].status

\* C2: for each request of a run, processQueue calls
\* generateQuestionsFromGemini at most MAX_OVERALL_REQUEST_ATTEMPTS times and
\* never again after a call succeeded; once the run is done with a request
\* that is still in the queue, its status is Error if and only if every one
\* of those calls threw, and Completed otherwise.
C2_AttemptsAndStatus ==
  \A id \in 1..MaxRequests :
    LET calls == CallsFor(id)
        allThrew == \A k \in 1..Len(calls) : calls[k][2] = "threw"
    IN /\ Len(calls) <= MAX_OVERALL_REQUEST_ATTEMPTS
       /\ \A k \in 1..(Len(calls) - 1) : calls[k][2] = "threw"
       /\ (Finished(id) /\ IndexOfRequest(requests, id) # 0) =>
            /\ Len(calls) >= 1
            /\ StatusOf(id) = "error" <=> allThrew
            /\ StatusOf(id) = "completed" <=> ~allThrew
            /\ allThrew => Len(calls) = MAX_OVERALL_REQUEST_ATTEMPTS

\* C2 witness: a request whose first call threw and whose second call
\* succeeded is Completed
C2_Witness ==
  \E id \in 1..MaxRequests :
    /\ Finished(id) /\ IndexOfRequest(requests, id) # 0
    /\ Len(CallsFor(id)) = MAX_OVERALL_REQUEST_ATTEMPTS
    /\ CallsFor(id)[1][2] = "threw"
    /\ CallsFor(id)[MAX_OVERALL_REQUEST_ATTEMPTS][2] = "returned"
    /\ StatusOf(id) = "completed"

\* the place of a request in the snapshot of the current run
SnapshotIndex(id) ==
  CHOOSE k \in 1..Len(pendingOrErrorRequests) : pendingOrErrorRequests[k] = id

\* C3: processQueue sends the requests to the model one at a time and in the
\* order they had in the queue when the run started: the calls follow the
\* snapshot order, a call for a request is made only when every request
\* before it in that order has reached Completed or Error, and at most one
\* request has status Processing.
C3_OneAtATimeInOrder ==
  /\ Cardinality({k \in 1..Len(requests) :
                    requests[k].status = "processing"}) <= 1
  /\ \A k \in 1..(Len(callLog) - 1) :
       SnapshotIndex(callLog[k][1]) <= SnapshotIndex(callLog[k + 1][1])
  /\ \A k \in 1..Len(callLog) :
       \A j \in 1..(SnapshotIndex(callLog[k][1]) - 1) :
         pendingOrErrorRequests[j] \in reachedFinal

\* what holds when a run ends (the step that sets isProcessing back to false)
RunEndsWell ==
  /\ \A k \in 1..Len(pendingOrErrorRequests) :
       LET id == pendingOrErrorRequests[k]
       IN /\ Len(CallsFor(id)) >= 1
          /\ IndexOfRequest(requests', id) # 0 =>
               requests'[IndexOfRequest(requests', id)].status
                 \in {"completed", "error"}
  /\ \A k \in 1..Len(requests') : requests'[k].status # "processing"
  /\ pc' = "idle"

\* C4: while every model call returns or throws, a started run of
\* processQueue ends with isProcessing false again; when it ends, every
\* request of its snapshot was sent to the model (a failed request does not
\* stop the later ones), every such request still in the queue is Completed
\* or Error, and no request is left in Processing.
C4_RunTerminates ==
  /\ [][(isProcessing /\ ~isProcessing') => RunEndsWell]_vars
  /\ (isProcessing ~> ~isProcessing)

\* C4 witness: a run has ended after its first request failed and a later
\* one was completed
C4_Witness ==
  /\ ~isProcessing /\ pc = "idle"
  /\ \E j, k \in 1..Len(requests) :
       /\ j < k
       /\ requests[j].status = "error"
       /\ requests[k].status = "completed"

IdsOf(list) == {list[k].id : k \in 1..Len(list)}

\* an item's id is missing, null, no string or blank
BlankId(id) == ~IsString(id) \/ Trim(id) = <<>>

\* what the claim says of one merge: prev and next are the table before and
\* after, items the validated items of the answer, qs the questions returned
\* for them
MergeKeepsIds(prev, next, items, qs) ==
  /\ Len(qs) = Len(items)
  /\ \A k \in 1..Len(items) :
       IF ~BlankId(items[k].id)
         THEN /\ qs[k].id = items[k].id
              /\ \A j \in 1..Len(prev) :
                   prev[j].id = items[k].id =>
                     \E m \in 1..Len(qs) :
                       qs[m].id = items[k].id /\ next[j] = qs[m]
         ELSE /\ qs[k].id \notin IdsOf(prev)
              /\ \A m \in 1..Len(qs) : m # k => qs[m].id # qs[k].id
              /\ \E j \in (Len(prev) + 1)..Len(next) : next[j] = qs[k]
  /\ \A j \in 1..Len(prev) : prev[j].id \notin IdsOf(qs) => next[j] = prev[j]
  /\ Len(next) = Len(prev) + Cardinality(IdsOf(qs) \ IdsOf(prev))
  /\ \A a, b \in (Len(prev) + 1)..Len(next) :
       a < b => \E m, n \in 1..Len(qs) :
                  m < n /\ qs[m] = next[a] /\ qs[n] = next[b]

\* C5: an item returned with a non-blank string id yields a question with
\* that id, and if the table holds a question with that id the merge puts a
\* returned question with that id at the same index; questions of the table
\* whose id was not returned keep their place and content, so a pure rewrite
\* leaves the length unchanged; an item without an id (or with a null or
\* blank one) gets an id that is new to the table and to the answer and is
\* appended after the old table, in the order of the answer.
C5_RewritePreservesIds ==
  [][pc = "returned" =>
       MergeKeepsIds(generatedQuestions, generatedQuestions',
                     callResult.parsedData, callResult.parsedQuestions)]_vars

\* C5 witness: the first question of the table was rewritten in place and
\* a new question came after the old table
C5_Witness ==
  /\ Len(generatedQuestions) = MaxInitTable + 1
  /\ generatedQuestions[1].id = GenId(1)
  /\ generatedQuestions[1].Pregunta = TextR
  /\ generatedQuestions[2].Pregunta = TextP
  /\ generatedQuestions[MaxInitTable + 1].id = GenId(MaxInitTable + 1)

\* a field is filled: it is a text with a character that is no white space
Filled(value) ==
  /\ value \notin {Undefined, Null}
  /\ \E k \in 1..Len(value) : value[k] \notin Whitespace

\* the option fields of a question that are filled
FilledOptions(q) ==
  {name \in {"c1", "c2", "c3", "i1", "i2", "i3"} :
     Filled(CASE name = "c1" -> q.OpcionCorrecta1
              [] name = "c2" -> q.OpcionCorrecta2
              [] name = "c3" -> q.OpcionCorrecta3
              [] name = "i1" -> q.OpcionIncorrecta1
              [] name = "i2" -> q.OpcionIncorrecta2
              [] name = "i3" -> q.OpcionIncorrecta3)}

\* the five conditions of the claim, by name of the type
TypeCondition(type, q) ==
  LET f == FilledOptions(q)
      incorrect == Cardinality(f \cap {"i1", "i2", "i3"})
  IN CASE type = "OpenAnswer" -> f = {"c1"}
       [] type = "Flashcard" -> f = {"c2"}
       [] type = "TrueFalse" -> f = {"c1", "i1"}
       [] type = "MultipleCorrect" ->
            "c1" \in f /\ f \cap {"c2", "c3"} # {} /\ incorrect >= 1
       [] type = "SingleCorrect" ->
            "c1" \in f /\ f \cap {"c2", "c3"} = {} /\ incorrect >= 2

FilledTypes ==
  {"OpenAnswer", "Flashcard", "TrueFalse", "MultipleCorrect", "SingleCorrect"}

\* C7: getQuestionTypeInfo returns Empty iff 'Pregunta' is blank; otherwise
\* it returns each of OpenAnswer, Flashcard, TrueFalse, MultipleCorrect and
\* SingleCorrect iff that type's condition on the filled option fields
\* holds, and Unknown iff none holds; for a non-blank 'Pregunta' at most one
\* of the five conditions holds.
C7_Classification ==
  output # <<>> =>
    /\ output[1] = "Empty" <=> ~Filled(input.Pregunta)
    /\ Filled(input.Pregunta) =>
         /\ \A type \in FilledTypes :
              output[1] = type <=> TypeCondition(type, input)
         /\ output[1] = "Unknown" <=>
              \A type \in FilledTypes : ~TypeCondition(type, input)
         /\ Cardinality({type \in FilledTypes : TypeCondition(type, input)})
              <= 1

\* C7 witness: a question with a blank correct option 2 beside two filled
\* incorrect options has been classified SingleCorrect
C7_Witness ==
  /\ output = <<"SingleCorrect">>
  /\ input \in TypeInputs
  /\ input.OpcionCorrecta2 = <<" ">>
  /\ Cardinality(FilledOptions(input)) = 3

\* a field as the claim expects it back: undefined as the empty string
ExpectedField(value) == IF value \in {Undefined, Null} THEN <<>> ELSE value

HasUnknown(table) ==
  \E k \in 1..Len(table) : getQuestionTypeInfo(table[k]) = "Unknown"

NonEmptyQuestions(table) ==
  SelectSeq(table, LAMBDA q : getQuestionTypeInfo(q) # "Empty")

\* C6: a call of handleSave on a table with a question classified Unknown,
\* or with no question that is not Empty, starts no download and sets
\* globalError; a call that does start a download exports exactly the
\* questions of the table that are not Empty, in table order.
C6_SaveGuard ==
  input # <<>> =>
    IF HasUnknown(input[1]) \/ NonEmptyQuestions(input[1]) = <<>>
      THEN download = <<>> /\ globalError # "null"
      ELSE /\ download # <<>>
           /\ download[1].questions = NonEmptyQuestions(input[1])
           /\ globalError = "null"

\* C6 witness: a table with an Empty row beside a filled row was exported
\* without the Empty row
C6_Witness ==
  /\ input # <<>>
  /\ download # <<>>
  /\ Len(input[1]) >= 2
  /\ \E k \in 1..Len(input[1]) : getQuestionTypeInfo(input[1][k]) = "Empty"
  /\ Len(download[1].questions) = Len(input[1]) - 1

\* a text typed into the key field that holds nothing but white space
BlankInput(text) == \A k \in 1..Len(text) : text[k] \in Whitespace

NoEffectiveKey == localStorageKey = Null /\ envApiKey = Undefined

C9_KeySelection ==
  /\ currentStoredUserApiKey = localStorageKey
  /\ getEffectiveApiKey =
       IF localStorageKey # Null THEN localStorageKey ELSE envApiKey
  /\ pc # "idle" => apiKey \in {UserKey, EnvKey}

\* C9: the effective key is the user key of local storage when there is one
\* and the key of the environment otherwise; saving a blank key removes the
\* stored key; and a click on processQueue with no effective key sets
\* globalError, starts no run (so nothing is sent to the model), changes no
\* request and leaves isProcessing false.
C9_ApiKey ==
  /\ []C9_KeySelection
  /\ [][\A text \in KeyInputs :
          (BlankInput(text) /\ handleSaveApiKey(text)) =>
            localStorageKey' = Null]_vars
  /\ [][(NoEffectiveKey /\ processQueue) =>
          /\ globalError' = "noApiKey"
          /\ requests' = requests
          /\ isProcessing' = FALSE
          /\ pc' = "idle"
          /\ callLog' = callLog]_vars

\* C9 witness: with a request waiting and no key at all, the click left the
\* error and nothing else
C9_Witness ==
  /\ NoEffectiveKey
  /\ globalError = "noApiKey"
  /\ ~isProcessing /\ pc = "idle"
  /\ \E k \in 1..Len(requests) : requests[k].status = "pending"

RECURSIVE Concat(_)
Concat(chunks) ==
  IF chunks = <<>> THEN <<>> ELSE Head(chunks) \o Concat(Tail(chunks))

\* C10: every call of setLiveStreamContent leaves in currentRawStreamRef the
\* concatenation, in arrival order, of the chunks passed since the last
\* call with replace = true; the call that precedes each initial request
\* empties the buffer; and when a stream ends the buffer is the text the
\* model sent on that stream, which is the output handed to the parser.
C10_StreamBuffer ==
  [][/\ chunksSinceReplace' # chunksSinceReplace =>
          currentRawStreamRef' = Concat(chunksSinceReplace')
     /\ (pc = "while" /\ pc' = "awaitStream") => currentRawStreamRef' = <<>>
     /\ (pc = "streaming" /\ pc' = "loop") =>
          /\ currentRawStreamRef = streamSent
          /\ lastGeminiRawOutput' = currentRawStreamRef]_vars

\* C10 witness: the stream of a second attempt ended after two chunks
C10_Witness ==
  /\ pc = "loop"
  /\ overallAttempt = 1
  /\ jsonCorrectionAttempts = 0
  /\ Len(chunksSinceReplace) = 3
  /\ currentRawStreamRef = lastGeminiRawOutput
  /\ Len(currentRawStreamRef) > 1

\* the JSON value a response denotes, as line 385 reads it
ResponseJson(raw) == JSONParse(StripFence(Trim(raw)))

\* the response is a JSON array of objects that each have a non-blank string
\* 'Pregunta' and a non-blank string 'Opción correcta 1'
ValidArray(raw) ==
  /\ Trim(raw) # <<>>
  /\ ResponseJson(raw).ok
  /\ ResponseJson(raw).value.type = "array"
  /\ \A k \in 1..Len(ResponseJson(raw).value.items) :
       LET item == ResponseJson(raw).value.items[k]
       IN /\ item.type = "object"
          /\ Filled(item.Pregunta)
          /\ Filled(item.OpcionCorrecta1)

\* the questions are those of the items, one for one, each with a string
\* 'Explicación'
QuestionsOfItems(qs, items) ==
  /\ Len(qs) = Len(items)
  /\ \A k \in 1..Len(qs) :
       /\ qs[k].Pregunta = items[k].Pregunta
       /\ qs[k].OpcionCorrecta1 = items[k].OpcionCorrecta1
       /\ qs[k].Explicacion \notin {Undefined, Null}
       /\ qs[k].Explicacion =
            IF items[k].Explicacion \in {Undefined, Null} THEN <<>>
            ELSE items[k].Explicacion

\* C11: validation is all-or-nothing.  The step that checks a response
\* returns questions only if the response is a JSON array in which every
\* item is an object with a non-blank string 'Pregunta' and a non-blank
\* string 'Opción correcta 1', and then one question per item, each with a
\* string 'Explicación' (the empty string for null or missing); if the
\* response is not such an array, nothing is returned, the table is left
\* alone and jsonCorrectionAttempts grows by one.
C11_AllOrNothing ==
  [][pc = "validate" =>
       /\ pc' = "returned" =>
            /\ ValidArray(lastGeminiRawOutput)
            /\ callResult'.kind = "returned"
            /\ QuestionsOfItems(callResult'.parsedQuestions,
                                ResponseJson(lastGeminiRawOutput).value.items)
       /\ ~ValidArray(lastGeminiRawOutput) =>
            /\ pc' = "loop"
            /\ callResult' = NoCallResult
            /\ generatedQuestions' = generatedQuestions
            /\ jsonCorrectionAttempts' = jsonCorrectionAttempts + 1]_vars

\* C11 witness: an array whose first item is valid and whose second item has
\* a blank 'Pregunta' was rejected as a whole and counted as one attempt
C11_Witness ==
  /\ pc = "loop"
  /\ jsonCorrectionAttempts = 1
  /\ lastGeminiRawOutput = JsonTexts[JsonArray(<<NewItem, BlankPreguntaItem>>)]
  /\ lastJsonErrorForReprompt = "missingFields"
  /\ callResult = NoCallResult
  /\ generatedQuestions # <<>>

\* C12: when every response of one call of generateQuestionsFromGemini fails
\* to parse or validate, the call has sent exactly
\* MAX_JSON_CORRECTION_ATTEMPTS correction re-prompts when it throws the
\* 'all correction attempts failed' error.
C12_ExactlyMaxReprompts ==
  (pc = "threw" /\ callResult.error = "allCorrectionAttemptsFailed") =>
    correctionPromptsSent = MAX_JSON_CORRECTION_ATTEMPTS

\* C13: when a call of generateQuestionsFromGemini returns, the
\* jsonCorrectionAttempts it returns is the number of correction re-prompts
\* sent during that call (0 when the streamed response was valid), and the
\* step of processQueue that takes the result makes the request Completed
\* with exactly that number as its jsonCorrectionAttempts.
C13_AttemptsOnSuccess ==
  /\ [](pc = "returned" =>
          callResult.jsonCorrectionAttempts = correctionPromptsSent)
  /\ [][(pc = "returned" /\ IndexOfRequest(requests, currentRequest) # 0) =>
          LET r == requests'[IndexOfRequest(requests', currentRequest)]
          IN /\ r.status = "completed"
             /\ r.jsonCorrectionAttempts = correctionPromptsSent]_vars

\* C13 witness: a request was completed by the answer to the second
\* correction re-prompt and shows 2
C13_Witness ==
  /\ pc = "while"
  /\ successInRequest
  /\ correctionPromptsSent = 2
  /\ IndexOfRequest(requests, currentRequest) # 0
  /\ requests[IndexOfRequest(requests, currentRequest)].status = "completed"
  /\ requests[IndexOfRequest(requests, currentRequest)].jsonCorrectionAttempts = 2

\* C14: when the step of processQueue that takes a thrown error sets a
\* request to Error and the call that threw had sent correction re-prompts,
\* the request's jsonCorrectionAttempts is the number of those re-prompts
\* (which is what the 'failed after N JSON corrections' line shows).
C14_AttemptsOnError ==
  [][(/\ pc = "threw"
      /\ correctionPromptsSent > 0
      /\ IndexOfRequest(requests', currentRequest) # 0
      /\ requests'[IndexOfRequest(requests', currentRequest)].status = "error")
       => requests'[IndexOfRequest(requests', currentRequest)].jsonCorrectionAttempts
            = correctionPromptsSent]_vars

\* the status changes the claim allows
StatusChanges ==
  {<<"pending", "processing">>, <<"error", "processing">>,
   <<"processing", "completed">>, <<"processing", "error">>}

\* C15: the status of a request changes only along Pending -> Processing,
\* Error -> Processing, Processing -> Completed and Processing -> Error (so a
\* Completed request never leaves Completed); the snapshot a run of
\* processQueue takes holds only requests that are Pending or Error; and no
\* call of generateQuestionsFromGemini is made for a request that is
\* Completed.
C15_StatusTransitions ==
  [][/\ \A id \in 1..MaxRequests :
          (IndexOfRequest(requests, id) # 0 /\ IndexOfRequest(requests', id) # 0)
            => LET before == requests[IndexOfRequest(requests, id)].status
                   after == requests'[IndexOfRequest(requests', id)].status
               IN before = after \/ <<before, after>> \in StatusChanges
     /\ (pc = "idle" /\ pc' = "for") =>
          \A k \in 1..Len(pendingOrErrorRequests') :
            /\ IndexOfRequest(requests, pendingOrErrorRequests'[k]) # 0
            /\ requests[IndexOfRequest(requests, pendingOrErrorRequests'[k])].status
                 \in {"pending", "error"}
     /\ (pc = "while" /\ pc' = "awaitStream"
           /\ IndexOfRequest(requests, currentRequest) # 0) =>
          requests[IndexOfRequest(requests, currentRequest)].status
            = "processing"]_vars

\* C15 witness: a later run has started; its snapshot holds the request that
\* an earlier run left in Error and not the one it left Completed
C15_Witness ==
  /\ pc = "for" /\ i = 0
  /\ Len(requests) = 2
  /\ requests[1].status = "completed"
  /\ requests[2].status = "error"
  /\ pendingOrErrorRequests = <<requests[2].id>>

\* the CSV text holds the data row of the question
RowSent(csv, q) ==
  /\ csv # Undefined
  /\ \E n \in 2..Len(SplitLines(csv)) : SplitLines(csv)[n] = CsvDataRow(q)

\* C16: the existingQuestionsCsv passed with a call of
\* generateQuestionsFromGemini holds every question of the table that is not
\* Empty, the questions that earlier requests of the same run produced
\* included.
C16_ExistingQuestionsSent ==
  pc = "awaitStream" =>
    \A k \in 1..Len(generatedQuestions) :
      getQuestionTypeInfo(generatedQuestions[k]) # "Empty" =>
        RowSent(callLog[Len(callLog)][3], generatedQuestions[k])

\* C17: a request that was removed from the queue before its turn is not
\* sent to the model: whenever a call of generateQuestionsFromGemini is
\* under way, the request it was made for is in the queue.
C17_RemovedNotSent ==
  pc \in CallPcs => IndexOfRequest(requests, currentRequest) # 0

\* C18: a response that is exactly '[]' is accepted at once: its validation
\* returns zero questions without another correction re-prompt, and the step
\* of processQueue that takes this result leaves the table of questions as
\* it is and makes the request Completed with questionsGeneratedCount 0.
C18_EmptyArrayAccepted ==
  /\ [][(pc = "validate" /\ lastGeminiRawOutput = EmptyArrayText) =>
          /\ pc' = "returned"
          /\ callResult'.rawText = EmptyArrayText
          /\ callResult'.parsedQuestions = <<>>
          /\ callResult'.jsonCorrectionAttempts = correctionPromptsSent
          /\ correctionPromptsSent' = correctionPromptsSent]_vars
  /\ [][(pc = "returned" /\ callResult.rawText = EmptyArrayText) =>
          /\ generatedQuestions' = generatedQuestions
          /\ successInRequest'
          /\ IndexOfRequest(requests, currentRequest) # 0 =>
               LET r == requests'[IndexOfRequest(requests', currentRequest)]
               IN /\ r.status = "completed"
                  /\ r.questionsGeneratedCount = 0
                  /\ r.jsonCorrectionAttempts = correctionPromptsSent]_vars

\* C18 witness: the second request of a run was answered '[]' on the
\* stream; it is Completed with count 0 and the table still holds the one
\* question of the first request
C18_Witness ==
  /\ pc = "while" /\ successInRequest /\ i = 1
  /\ correctionPromptsSent = 0
  /\ Len(requests) = 2
  /\ requests[2].status = "completed"
  /\ requests[2].questionsGeneratedCount = 0
  /\ requests[2].jsonCorrectionAttempts = 0
  /\ Len(generatedQuestions) = 1

C20_StreamErrorRethrown ==
  /\ [][StreamThrows =>
          /\ pc' = "threw"
          /\ callResult'.kind = "threw"
          /\ callResult'.error = "streamError"
          /\ correctionPromptsSent' = 0]_vars
  /\ [][(pc = "threw" /\ callResult.error = "streamError") =>
          /\ overallAttempt' = overallAttempt + 1
          /\ overallAttempt' <= MAX_OVERALL_REQUEST_ATTEMPTS
          /\ ~successInRequest'
          /\ generatedQuestions' = generatedQuestions
          /\ IndexOfRequest(requests, currentRequest) # 0 =>
               LET r == requests'[IndexOfRequest(requests', currentRequest)]
               IN IF overallAttempt' = MAX_OVERALL_REQUEST_ATTEMPTS
                    THEN r.status = "error" /\ r.errorDetails = "streamError"
                    ELSE r.status = "processing"]_vars
  /\ []((pc = "while" /\ ~successInRequest
           /\ overallAttempt < MAX_OVERALL_REQUEST_ATTEMPTS)
          => ENABLED CallGenerateQuestions)

\* C20 witness: both overall attempts of a request ended with a stream
\* error and the request is in Error, with no re-prompt sent
C20_Witness ==
  /\ pc = "while"
  /\ overallAttempt = MAX_OVERALL_REQUEST_ATTEMPTS
  /\ lastOverallAttemptError = "streamError"
  /\ correctionPromptsSent = 0
  /\ Len(CallsFor(currentRequest)) = MAX_OVERALL_REQUEST_ATTEMPTS
  /\ IndexOfRequest(requests, currentRequest) # 0
  /\ requests[IndexOfRequest(requests, currentRequest)].status = "error"
  /\ requests[IndexOfRequest(requests, currentRequest)].errorDetails
       = "streamError"

\* ------------------------------------------------------------------------
\* C21: the preview after each chunk
\* ------------------------------------------------------------------------
\* the 0-based places of the stream where a "Pregunta" key stands
KeyIndexes(streamSoFar) ==
  {k \in 0..(Len(streamSoFar) - Len(PreguntaKey)) :
     SubSeq(streamSoFar, k + 1, k + Len(PreguntaKey)) = PreguntaKey}

LastKeyIndex(streamSoFar) ==
  CHOOSE k \in KeyIndexes(streamSoFar) :
    \A j \in KeyIndexes(streamSoFar) : j <= k

\* the value of the key at place k: the text up to its closing unescaped
\* quote, or what has arrived of it; nothing when no string value follows
ValueOfKeyAt(streamSoFar, k) ==
  LET start == ValueStartIndex(streamSoFar, k + Len(PreguntaKey))
  IN IF start = -1 THEN <<>> ELSE ScanValue(streamSoFar, start)

\* a step in which a chunk with text arrives
ChunkArrives == StreamChunk /\ Head(responseStream) # <<>>

\* the display of a text: what the browser renders of EscapeHtml(text) is
\* text itself
Shows(text) == currentAnimatedPreviewText' = EscapeHtml(text)

\* a value as the preview abbreviates it
Shortened(value) ==
  IF Len(value) > 70
    THEN SubSeq(value, 1, 67) \o <<".", ".", ".">>
    ELSE value

\* C21 as stated: after each chunk the preview shows the value of the last
\* "Pregunta" key of the stream so far, whole or partial; it is left
\* unchanged when no "Pregunta" key of the stream so far has a non-empty
\* value.
C21_PreviewShowsLastValue ==
  [][ChunkArrives =>
       LET streamSoFar == currentRawStreamRef'
       IN IF \E k \in KeyIndexes(streamSoFar) :
               ValueOfKeyAt(streamSoFar, k) # <<>>
            THEN Shows(ValueOfKeyAt(streamSoFar, LastKeyIndex(streamSoFar)))
            ELSE UNCHANGED currentAnimatedPreviewText]_vars

\* C21, amended: after each chunk, when the value of the last "Pregunta" key
\* of the stream so far (whole or partial) is not empty, the preview shows
\* that value, cut to its first 67 characters followed by "..." when it is
\* longer than 70 characters; otherwise (no key, or a last key whose value is
\* empty, has not started, or is not a string) the preview is left as it
\* was, even if an earlier key has a value.
C21_PreviewShowsLastNonEmptyValue ==
  [][ChunkArrives =>
       LET streamSoFar == currentRawStreamRef'
           value == IF KeyIndexes(streamSoFar) = {} THEN <<>>
                    ELSE ValueOfKeyAt(streamSoFar, LastKeyIndex(streamSoFar))
       IN IF value # <<>>
            THEN Shows(Shortened(value))
            ELSE UNCHANGED currentAnimatedPreviewText]_vars

\* the second question's partial value, with an escaped character of HTML,
\* is in the preview while the rest of the stream has yet to arrive
C21_Witness ==
  /\ pc = "streaming"
  /\ responseStream # <<>>
  /\ Cardinality(KeyIndexes(currentRawStreamRef)) = 2
  /\ latestPreguntaContent(currentRawStreamRef) = <<"b", "&">>
  /\ currentAnimatedPreviewText = <<"b", "&", "a", "m", "p", ";">>

\* ------------------------------------------------------------------------
\* C22: CSV import
\* ------------------------------------------------------------------------
\* the file a step has imported, and whether the step has accepted it
ImportedText == input'[1]
ImportStep == input = <<>> /\ input' # <<>>
ImportAccepted == globalError' = "null"

\* the header row has the fields of CSV_HEADERS, blanks around a field aside
HeaderRowEquals(text) ==
  LET header == parseCsvLineRobust(SplitLines(text)[1])
  IN /\ Len(header) = 8
     /\ \A k \in 1..8 : Trim(header[k]) = CSV_HEADERS[k]

\* the lines after the header that are not blank and have eight fields, in
\* file order
ImportableLines(text) ==
  SelectSeq(Tail(SplitLines(text)),
            LAMBDA line : Trim(line) # <<>>
                          /\ Len(parseCsvLineRobust(line)) = 8)

\* question q holds the fields of the line, an empty field being absent
QuestionOfLine(q, line) ==
  \A k \in 1..8 :
    QuestionFields(q)[k] =
      IF parseCsvLineRobust(line)[k] = <<>> THEN Undefined
      ELSE parseCsvLineRobust(line)[k]

\* C22: an import that is accepted has a header row equal to CSV_HEADERS
\* field by field; it leaves the questions of the table as they were and
\* appends, in file order, one question for every non-blank data line of
\* eight fields and none for any other line, each with an id that no other
\* question of the table has. An import that is not accepted leaves the
\* table as it was.
C22_CsvImport ==
  [][ImportStep =>
       IF ImportAccepted
         THEN LET old == Len(generatedQuestions)
                  good == ImportableLines(ImportedText)
                  table == generatedQuestions'
              IN /\ HeaderRowEquals(ImportedText)
                 /\ Len(table) = old + Len(good)
                 /\ SubSeq(table, 1, old) = generatedQuestions
                 /\ \A k \in 1..Len(good) : QuestionOfLine(table[old + k], good[k])
                 /\ \A j, k \in 1..Len(table) :
                      (j # k /\ k > old) => table[j].id # table[k].id
         ELSE UNCHANGED generatedQuestions]_vars

\* after an import into a table that held a question of an earlier import:
\* that question is still first, two lines of the file have become the
\* questions after it (the first one from a line with a quoted comma), and
\* a file of this kind also had lines that were passed over
C22_Witness ==
  /\ input # <<>>
  /\ globalError = "null"
  /\ Len(generatedQuestions) = 3
  /\ generatedQuestions[1] = ExistingQuestion(csvImportId(1))
  /\ generatedQuestions[2].Pregunta = <<"P", ",", "Q">>
  /\ generatedQuestions[3].Pregunta = Undefined
  /\ generatedQuestions[2].id # generatedQuestions[3].id

====
